---- MODULE Spec2Model ----
(***************************************************************************)
(* PMIX report extraction and validation (fdsouvenir/ca-quickstart).       *)
(*                                                                         *)
(* Text is modelled by TLA+ strings, read with Len, SubSeq and \o.         *)
(* Currency amounts are integers in cents (every amount drawn has at most  *)
(* two fraction digits, so round(x, 2) leaves it unchanged).               *)
(* An optional value (Python None or a value) is <<>> or <<v>>; a table    *)
(* cell that pdfplumber leaves unset is the marker PyNone.                 *)
(***************************************************************************)
EXTENDS Integers, Sequences, FiniteSets, TLC

VARIABLES
    \* ---- one run of an extractor (parse_from_table / parse_from_words)
    kind,                       \* "table" | "words" | "idle"
    table_rows,                 \* parse_from_table's argument
    pages,                      \* pdf.pages: per page the set of words
    pos,                        \* number of rows (table) or data rows (words) consumed
    records,                    \* the local list `records`
    current_primary_category,   \* the local context, None at the start
    grand_total_from_pdf,       \* the local grand total, None at the start
    pc,                         \* "run" | "done" | "raised"
    origin,                     \* ghost: for each record, the row it came from
    \* ---- the Format Dispatcher (find_data_table, parse_pmix_pdf)
    pdf_path,                   \* parse_pmix_pdf's argument
    variant,                    \* "cloud" (pmix_parser.py) | "script" (parse_pmix_pdf.py)
    report_date,                \* the resolved date, None before
    page_tables,                \* per page, the list page.extract_tables() returns
    pg,                         \* find_data_table: the page being probed
    tb,                         \* find_data_table: the table being probed
    all_rows,                   \* find_data_table: the local list `all_rows`
    dpc,                        \* "start" | "probe" | "done" | "raised" | "idle"
    ran,                        \* ghost: the extractors parse_pmix_pdf has called
    result                      \* what parse_pmix_pdf returned, None before

\* The programs run on a parsed document: the validators, the parse CLI, one
\* date of the bulk import, the cloud trigger
VARIABLES
    doc,                        \* what parse_pmix_pdf did: [raised, records, grand_total]
    program,                    \* the program that ran last, "none" before
    outcome,                    \* what it returned or reported, None before
    validation_log,             \* the validation log file's entries
    import_records,             \* bulk import: all_records
    counts,                     \* bulk import: parsed/closed/error/flagged counts
    bucket,                     \* the blobs in the upload bucket
    item_sales,                 \* the rows of the item_sales table
    import_log                  \* the rows of the pmix_import_log table

\* Parse invocations one after another in one process, concurrent writers
\* of the validation log, and the value normalizers called on their own
VARIABLES
    returned,                   \* ghost: the document and the result of each earlier invocation
    wpc,                        \* per writer: "start" | "loaded" | "opened" | "done"
    log_entries,                \* per writer: the local list `log_entries`
    log_entry,                  \* per writer: the entry it appends
    serialized,                 \* whether the callers run the appends one at a time
    raw_value,                  \* the normalizers' argument
    normalized                  \* what they returned for it, None before

\* Invocations of the cloud trigger running at the same time
VARIABLES
    inv                         \* per invocation of process_pmix: its locals and position

extractVars == <<kind, table_rows, pages, pos, records, current_primary_category,
                 grand_total_from_pdf, pc, origin>>

dispatchVars == <<pdf_path, variant, report_date, page_tables, pg, tb, all_rows, dpc, ran,
                  result>>

pipeVars == <<doc, program, outcome, validation_log, import_records, counts, bucket,
              item_sales, import_log>>

sessionVars == <<returned>>

writerVars == <<wpc, log_entries, log_entry, serialized>>

normVars == <<raw_value, normalized>>

triggerVars == <<inv>>

restVars == <<sessionVars, writerVars, normVars, triggerVars>>

vars == <<extractVars, dispatchVars, pipeVars, restVars>>

-----------------------------------------------------------------------------
(* Python values *)

PyNone == "<None>"
None == <<>>
Some(v) == <<v>>

Truthy(c) == c # PyNone /\ c # ""

\* str(c) if c else dflt
StrOr(c, dflt) == IF Truthy(c) THEN c ELSE dflt

-----------------------------------------------------------------------------
(* str methods *)

Ch(s, i) == SubSeq(s, i, i)

Whitespace == {" ", "\n", "\t", "\r"}
Digits == {"0", "1", "2", "3", "4", "5", "6", "7", "8", "9"}

RECURSIVE LStrip(_)
LStrip(s) ==
    IF Len(s) > 0 /\ Ch(s, 1) \in Whitespace THEN LStrip(SubSeq(s, 2, Len(s))) ELSE s

RECURSIVE RStrip(_)
RStrip(s) ==
    IF Len(s) > 0 /\ Ch(s, Len(s)) \in Whitespace
    THEN RStrip(SubSeq(s, 1, Len(s) - 1)) ELSE s

Strip(s) == RStrip(LStrip(s))

StartsWith(s, p) == Len(s) >= Len(p) /\ SubSeq(s, 1, Len(p)) = p

EndsWith(s, p) == Len(s) >= Len(p) /\ SubSeq(s, Len(s) - Len(p) + 1, Len(s)) = p

\* `sub in s`
Contains(s, sub) ==
    \E i \in 1..(Len(s) - Len(sub) + 1) : SubSeq(s, i, i + Len(sub) - 1) = sub

\* s.replace(c, '') for every character c of cs
RECURSIVE RemoveChars(_, _)
RemoveChars(s, cs) ==
    IF Len(s) = 0 THEN ""
    ELSE (IF Ch(s, 1) \in cs THEN "" ELSE Ch(s, 1))
         \o RemoveChars(SubSeq(s, 2, Len(s)), cs)

\* s.split('\n')
RECURSIVE SplitNL(_)
SplitNL(s) ==
    IF \E i \in 1..Len(s) : Ch(s, i) = "\n"
    THEN LET i == CHOOSE k \in 1..Len(s) :
                      Ch(s, k) = "\n" /\ \A j \in 1..(k - 1) : Ch(s, j) # "\n"
         IN  <<SubSeq(s, 1, i - 1)>> \o SplitNL(SubSeq(s, i + 1, Len(s)))
    ELSE <<s>>

\* s.isdigit()
IsDigit(s) == Len(s) > 0 /\ \A i \in 1..Len(s) : Ch(s, i) \in Digits

\* re.match(r'[\d.]+', s): the pattern is anchored at the start only
MatchesNumericPrefix(s) == Len(s) > 0 /\ Ch(s, 1) \in (Digits \cup {"."})

DigitVal(c) ==
    CASE c = "0" -> 0 [] c = "1" -> 1 [] c = "2" -> 2 [] c = "3" -> 3 [] c = "4" -> 4
      [] c = "5" -> 5 [] c = "6" -> 6 [] c = "7" -> 7 [] c = "8" -> 8 [] c = "9" -> 9

\* int(s) for a digits-only s
RECURSIVE IntOfDigits(_)
IntOfDigits(s) ==
    IF Len(s) = 0 THEN 0
    ELSE 10 * IntOfDigits(SubSeq(s, 1, Len(s) - 1)) + DigitVal(Ch(s, Len(s)))

\* float(s), in cents: [ok |-> FALSE] stands for ValueError.  The grammar is
\* [sign] digits [. digits] | [sign] . digits, with surrounding whitespace
\* allowed; the exponent, inf, nan and underscore forms are never drawn.
\* Fraction digits after the second are never drawn either.
PyFloat(s) ==
    LET t == Strip(s)
        neg == StartsWith(t, "-")
        u == IF StartsWith(t, "-") \/ StartsWith(t, "+") THEN SubSeq(t, 2, Len(t)) ELSE t
        dots == {i \in 1..Len(u) : Ch(u, i) = "."}
        ip == IF dots = {} THEN u ELSE SubSeq(u, 1, (CHOOSE i \in dots : TRUE) - 1)
        fp == IF dots = {} THEN "" ELSE SubSeq(u, (CHOOSE i \in dots : TRUE) + 1, Len(u))
        wellFormed == /\ Cardinality(dots) <= 1
                      /\ \A i \in 1..Len(ip) : Ch(ip, i) \in Digits
                      /\ \A i \in 1..Len(fp) : Ch(fp, i) \in Digits
                      /\ Len(ip) + Len(fp) > 0
        f2 == SubSeq(fp \o "00", 1, 2)
        mag == 100 * IntOfDigits(ip) + IntOfDigits(f2)
    IN  IF wellFormed THEN [ok |-> TRUE, cents |-> IF neg THEN -mag ELSE mag]
        ELSE [ok |-> FALSE, cents |-> 0]

\* int(x) of a float x given in cents: truncation toward zero
TruncToInt(cents) == IF cents >= 0 THEN cents \div 100 ELSE -((-cents) \div 100)

-----------------------------------------------------------------------------
(* Value normalizers *)

\* A variant that removes every whitespace character.
parse_currency_AnyWhitespace(value) ==
    IF ~Truthy(value) THEN [ok |-> TRUE, cents |-> 0]
    ELSE IF RemoveChars(value, {"$", ","} \cup Whitespace) = ""
    THEN [ok |-> TRUE, cents |-> 0]
    ELSE PyFloat(RemoveChars(value, {"$", ","} \cup Whitespace))

parse_currency(value) ==
    IF ~Truthy(value) THEN [ok |-> TRUE, cents |-> 0]
    ELSE LET cleaned == Strip(RemoveChars(value, {"$", ",", " "}))
         IN  IF cleaned = "" THEN [ok |-> TRUE, cents |-> 0] ELSE PyFloat(cleaned)

parse_quantity(value) ==
    IF ~Truthy(value) THEN [ok |-> TRUE, n |-> 0]
    ELSE LET cleaned == Strip(value)
         IN  IF cleaned = "" THEN [ok |-> TRUE, n |-> 0]
             ELSE [ok |-> PyFloat(cleaned).ok, n |-> TruncToInt(PyFloat(cleaned).cents)]

-----------------------------------------------------------------------------
(* Table Extractor: parse_from_table, one row at a time *)

\* `if not row or len(row) < 8: continue` (a None row is the empty row)
RowTooShort(row) == Len(row) < 8

\* str(row[0] or '').strip()
Cell0(row) == Strip(StrOr(row[1], ""))

\* str(row[1] or '').strip() if row[1] else ''
Cell1(row) == IF Truthy(row[2]) THEN Strip(row[2]) ELSE ""

\* part.startswith('(') and part.endswith(')')
IsParenthesized(s) == StartsWith(s, "(") /\ EndsWith(s, ")")

\* 'Menu Group' in cell0 or 'Category' in cell0
IsColumnHeader(cell0) == Contains(cell0, "Menu Group") \/ Contains(cell0, "Category")

\* The loop over cell0.split('\n') of a column-header row: the first stripped
\* part that is parenthesized, None when there is none or cell0 has no newline.
ColumnHeaderToken(cell0) ==
    IF ~Contains(cell0, "\n") THEN None
    ELSE LET parts == SplitNL(cell0)
             hits == {i \in 1..Len(parts) : IsParenthesized(Strip(parts[i]))}
         IN  IF hits = {} THEN None
             ELSE Some(Strip(parts[CHOOSE i \in hits : \A j \in hits : i <= j]))

\* '\n' in cell0 and cell0.startswith('(')
IsEmbeddedHeader(cell0) == Contains(cell0, "\n") /\ StartsWith(cell0, "(")

\* cell0.split('\n', 1)[0].strip(), kept when it is parenthesized
EmbeddedHeaderToken(cell0) ==
    LET header_part == Strip(SplitNL(cell0)[1])
    IN  IF IsParenthesized(header_part) THEN Some(header_part) ELSE None

\* 'Grand Total' in cell0
IsGrandTotalCell(cell0) == Contains(cell0, "Grand Total")

\* str(row[2]) if row[2] else ''
QtyStr(row) == StrOr(row[3], "")

\* not qty_str or not re.match(r'[\d.]+', qty_str)
HasNoQuantity(qty_str) == qty_str = "" \/ ~MatchesNumericPrefix(qty_str)

\* str(row[7]).strip() if len(row) > 7 and row[7] else ''
PctCat(row) == IF Len(row) > 7 /\ Truthy(row[8]) THEN Strip(row[8]) ELSE ""

\* A variant that compares with the wrong literal.
IsCategorySubtotal_Loose(row) == PctCat(row) = "100%"
\* is_category_subtotal = pct_cat == '100.00%'
IsCategorySubtotal(row) == PctCat(row) = "100.00%"

\* is_category_subtotal and not cell1
IsSubtotalRow(row) == IsCategorySubtotal(row) /\ Cell1(row) = ""

\* A variant that reads the average-price cell (index 4).
NetSalesCell_AvgPrice(row) == parse_currency(StrOr(row[5], "0"))
\* parse_currency(str(row[3]) if row[3] else '0')
NetSalesCell(row) == parse_currency(StrOr(row[4], "0"))

\* A variant that reads the average-price cell (index 4).
DiscountCell_AvgPrice(row) ==
    parse_currency(IF Len(row) > 5 /\ Truthy(row[5]) THEN row[5] ELSE "0")

\* parse_currency(str(row[5]) if len(row) > 5 and row[5] else '0')
DiscountCell(row) == parse_currency(IF Len(row) > 5 /\ Truthy(row[6]) THEN row[6] ELSE "0")

\* The rule a row falls under: the first test of the loop body that matches.
TableRule(row) ==
    IF RowTooShort(row) THEN "short"
    ELSE IF IsColumnHeader(Cell0(row)) THEN "column_header"
    ELSE IF IsEmbeddedHeader(Cell0(row)) THEN "embedded_header"
    ELSE IF IsParenthesized(Cell0(row)) THEN "primary_header"
    ELSE IF IsGrandTotalCell(Cell0(row)) THEN "grand_total"
    ELSE IF HasNoQuantity(QtyStr(row)) THEN "no_quantity"
    ELSE IF IsSubtotalRow(row) THEN "subtotal"
    ELSE "item"

\* The record built from an item row (lines 126-142), without the provenance fields.
TableRecord(row, ctx) ==
    [primary_category |-> ctx,
     category         |-> Cell0(row),
     item_name        |-> Cell1(row),
     quantity_sold    |-> parse_quantity(QtyStr(row)).n,
     net_sales        |-> NetSalesCell(row).cents,
     discount         |-> DiscountCell(row).cents]

\* float() raising inside the item branch
ItemRowRaises(row) ==
    ~parse_quantity(QtyStr(row)).ok \/ ~NetSalesCell(row).ok \/ ~DiscountCell(row).ok

\* A variant that forgets the context at a header row that names no category.
TableContextAfter_Reset(row, ctx) ==
    LET rule == TableRule(row)
    IN  IF rule = "column_header" THEN ColumnHeaderToken(Cell0(row))
        ELSE IF rule = "embedded_header" THEN EmbeddedHeaderToken(Cell0(row))
        ELSE IF rule = "primary_header" THEN Some(Cell0(row))
        ELSE ctx

\* The context after the row: only the three header rules assign it.
TableContextAfter(row, ctx) ==
    LET rule == TableRule(row)
        tok == IF rule = "column_header" THEN ColumnHeaderToken(Cell0(row))
               ELSE IF rule = "embedded_header" THEN EmbeddedHeaderToken(Cell0(row))
               ELSE IF rule = "primary_header" THEN Some(Cell0(row))
               ELSE None
    IN  IF tok = None THEN ctx ELSE tok

\* One iteration of `for row in table_rows` on the accumulator
\* st = [records, ctx, gt, raised, origin]; i is the row's index (ghost).
TableRowStep(st, row, i) ==
    LET rule == TableRule(row)
    IN  IF st.raised THEN st
        ELSE IF rule = "grand_total"
        THEN IF NetSalesCell(row).ok
             THEN [st EXCEPT !.gt = Some(NetSalesCell(row).cents)]
             ELSE [st EXCEPT !.raised = TRUE]
        ELSE IF rule = "item"
        THEN IF ItemRowRaises(row)
             THEN [st EXCEPT !.raised = TRUE]
             ELSE [st EXCEPT !.records = Append(@, TableRecord(row, st.ctx)),
                             !.origin = Append(@, <<i>>)]
        ELSE [st EXCEPT !.ctx = TableContextAfter(row, st.ctx)]

EmptyAcc == [records |-> <<>>, ctx |-> None, gt |-> None, raised |-> FALSE, origin |-> <<>>]

\* parse_from_table as a whole: the fold of TableRowStep over the rows
RECURSIVE TableFold(_, _, _)
TableFold(st, rows, i) ==
    IF i > Len(rows) THEN st ELSE TableFold(TableRowStep(st, rows[i], i), rows, i + 1)

parse_from_table(rows) == TableFold(EmptyAcc, rows, 1)

-----------------------------------------------------------------------------
(* Word-Position Extractor: parse_from_words, one data row at a time.      *)
(* A page is the list page.extract_words() returns; a word is              *)
(* [text, x0, top].                                                        *)

X_ITEM == 85            \* category: x0 < 85
X_QTY == 185            \* item name: 85 <= x0 < 185
X_CURRENCY == 220       \* quantity: 185 <= x0 < 220; currency: x0 >= 220
X_PCT == 500            \* percent of category: x0 > 500
Y_TOL_CATEGORY == 10
Y_TOL_ITEM == 15

Abs(n) == IF n < 0 THEN -n ELSE n

MaxOfSet(S) == CHOOSE x \in S : \A y \in S : y <= x

\* rows_by_y[y]: the words of the page whose top is y, in list order
RowsByY(page, y) == SelectSeq(page, LAMBDA w : w.top = y)

Tops(page) == {page[i].top : i \in 1..Len(page)}

\* A variant that accepts a digits-only word in any column.
HasQty_AnyColumn(row_words) ==
    \E i \in 1..Len(row_words) : IsDigit(row_words[i].text)
\* has_qty
HasQty(row_words) ==
    \E i \in 1..Len(row_words) :
        /\ IsDigit(row_words[i].text)
        /\ X_QTY <= row_words[i].x0
        /\ row_words[i].x0 < X_CURRENCY

RECURSIVE SortedInts(_)
SortedInts(S) ==
    IF S = {} THEN <<>>
    ELSE LET m == CHOOSE x \in S : \A y \in S : x <= y
         IN  <<m>> \o SortedInts(S \ {m})

\* data_rows: the tops of the rows that have a quantity, ascending
DataRowTops(page) == SortedInts({y \in Tops(page) : HasQty(RowsByY(page, y))})

\* The sort keys: (other_y, x0) for the gathered words (two words of a page
\* never share both, so the text never breaks a tie), x0 for sorted(row_words).
KeyLeq(a, b, key) ==
    IF key = "pos" THEN a.top < b.top \/ (a.top = b.top /\ a.x0 <= b.x0)
    ELSE a.x0 <= b.x0

RECURSIVE InsertWord(_, _, _)
InsertWord(w, s, key) ==
    IF s = <<>> THEN <<w>>
    ELSE IF KeyLeq(w, Head(s), key) THEN <<w>> \o s
    ELSE <<Head(s)>> \o InsertWord(w, Tail(s), key)

\* list.sort() / sorted(): stable
RECURSIVE SortWords(_, _)
SortWords(s, key) ==
    IF s = <<>> THEN <<>> ELSE InsertWord(Head(s), SortWords(Tail(s), key), key)

\* ' '.join(w.text for w in ws).strip()
RECURSIVE JoinTexts(_)
JoinTexts(ws) ==
    IF ws = <<>> THEN ""
    ELSE IF Len(ws) = 1 THEN ws[1].text
    ELSE ws[1].text \o " " \o JoinTexts(Tail(ws))

\* A variant that gathers the category with the item name's tolerance.
CategoryText_ItemTolerance(page, y) ==
    Strip(JoinTexts(SortWords(
        SelectSeq(page, LAMBDA w : Abs(w.top - y) <= Y_TOL_ITEM /\ w.x0 < X_ITEM),
        "pos")))
\* category_words, sorted and joined (lines 182-189)
CategoryText(page, y) ==
    Strip(JoinTexts(SortWords(
        SelectSeq(page, LAMBDA w : Abs(w.top - y) <= Y_TOL_CATEGORY /\ w.x0 < X_ITEM),
        "pos")))

\* item_words, sorted and joined (lines 192-199)
ItemName(page, y) ==
    Strip(JoinTexts(SortWords(
        SelectSeq(page, LAMBDA w : Abs(w.top - y) <= Y_TOL_ITEM
                                     /\ X_ITEM <= w.x0 /\ w.x0 < X_QTY),
        "pos")))

\* qty_words and qty (lines 202-203)
QtyWords(row_words) ==
    SelectSeq(row_words, LAMBDA w : X_QTY <= w.x0 /\ w.x0 < X_CURRENCY /\ IsDigit(w.text))

Qty(row_words) == IF QtyWords(row_words) # <<>> THEN IntOfDigits(QtyWords(row_words)[1].text)
                  ELSE 0

\* currency_words (lines 206-209)
CurrencyWords(row_words) ==
    SelectSeq(SortWords(row_words, "x0"),
              LAMBDA w : w.x0 >= X_CURRENCY /\ StartsWith(w.text, "$"))

\* net_sales = parse_currency(currency_words[1]) if len(currency_words) > 1 else 0.0
WordNetSales(row_words) ==
    IF Len(CurrencyWords(row_words)) > 1 THEN parse_currency(CurrencyWords(row_words)[2].text)
    ELSE [ok |-> TRUE, cents |-> 0]

\* discount = parse_currency(currency_words[3]) if len(currency_words) > 3 else 0.0
WordDiscount(row_words) ==
    IF Len(CurrencyWords(row_words)) > 3 THEN parse_currency(CurrencyWords(row_words)[4].text)
    ELSE [ok |-> TRUE, cents |-> 0]

\* is_category_header (lines 216-217)
IsCategoryHeader(row_words) ==
    \E i \in 1..Len(row_words) : row_words[i].text = "100.00" /\ row_words[i].x0 > X_PCT

\* is_category_header and not category_text.startswith('(') and not item_name
IsWordSubtotal(page, y) ==
    /\ IsCategoryHeader(RowsByY(page, y))
    /\ ~StartsWith(CategoryText(page, y), "(")
    /\ ItemName(page, y) = ""

\* The branch a data row takes (lines 212-235): the two amounts are parsed
\* before the row is classified.
WordRule(page, y) ==
    IF ~WordNetSales(RowsByY(page, y)).ok \/ ~WordDiscount(RowsByY(page, y)).ok THEN "raise"
    ELSE IF IsParenthesized(CategoryText(page, y)) THEN "primary_header"
    ELSE IF Contains(CategoryText(page, y), "Grand") /\ Contains(CategoryText(page, y), "Total")
         THEN "grand_total"
    ELSE IF IsWordSubtotal(page, y) THEN "subtotal"
    ELSE IF CategoryText(page, y) = "" THEN "no_category"
    ELSE "item"

WordRecord(page, y, ctx) ==
    [primary_category |-> ctx,
     category         |-> CategoryText(page, y),
     item_name        |-> ItemName(page, y),
     quantity_sold    |-> Qty(RowsByY(page, y)),
     net_sales        |-> WordNetSales(RowsByY(page, y)).cents,
     discount         |-> WordDiscount(RowsByY(page, y)).cents]

\* The context after a data row: only the header branch assigns it.
WordContextAfter(page, y, ctx) ==
    IF WordRule(page, y) = "primary_header" THEN Some(CategoryText(page, y)) ELSE ctx

\* One iteration of `for y, row_words in data_rows` on the accumulator;
\* p is the page's number (ghost).
WordRowStep(st, page, y, p) ==
    LET rule == WordRule(page, y)
    IN  IF st.raised THEN st
        ELSE IF rule = "raise" THEN [st EXCEPT !.raised = TRUE]
        ELSE IF rule = "grand_total"
        THEN [st EXCEPT !.gt = Some(WordNetSales(RowsByY(page, y)).cents)]
        ELSE IF rule = "item"
        THEN [st EXCEPT !.records = Append(@, WordRecord(page, y, st.ctx)),
                        !.origin = Append(@, <<p, y>>)]
        ELSE [st EXCEPT !.ctx = WordContextAfter(page, y, st.ctx)]

\* The data rows of the document in the order the two loops visit them
RECURSIVE AllDataRows(_, _)
AllDataRows(pgs, p) ==
    IF p > Len(pgs) THEN <<>>
    ELSE [i \in 1..Len(DataRowTops(pgs[p])) |-> <<p, DataRowTops(pgs[p])[i]>>]
         \o AllDataRows(pgs, p + 1)

RECURSIVE WordFold(_, _, _, _)
WordFold(st, pgs, drs, i) ==
    IF i > Len(drs) THEN st
    ELSE WordFold(WordRowStep(st, pgs[drs[i][1]], drs[i][2], drs[i][1]), pgs, drs, i + 1)

parse_from_words(pgs) == WordFold(EmptyAcc, pgs, AllDataRows(pgs, 1), 1)

-----------------------------------------------------------------------------
(* Inputs of the extractor runs *)

MaxRows == 3        \* rows of a table handed to parse_from_table
MaxWords == 4       \* words on the first page of a word-layout document

Blank7 == <<PyNone, PyNone, PyNone, PyNone, PyNone, PyNone, PyNone>>

RowHeaderFood == <<"(Food)">> \o Blank7
RowHeaderFoodShort == <<"(Food)">>
RowColumnHeader ==
    <<"Category\n(Beer)", "Item", "Qty", "Net Sales", "Avg Price", "Discount", "% Net", "% Cat">>
RowParenCategory == <<"(Category)", "", "", "", "", "", "", "">>
RowEmbedded == <<"(Wine)\nRed", "Merlot", "2", "$20.00", "$10.00", "$0.00", "1.0%", "50.0%">>
RowItem ==
    <<"Sushi", "Spicy Tuna Roll", "12.00", "$144.00", "$12.00", "$0.00", "10.0%", "25.0%">>
RowItemFull == <<"Rolls", "GF", "3.00", "$ 1,234.56", "$10.00", "$1.50", "5.0%", "100.00%">>
RowSubtotal == <<"Sushi", "", "12.00", "$144.00", "$12.00", "$0.00", "10.0%", "100.00%">>
RowSubtotalNone ==
    <<"Rolls", PyNone, "3.00", "$1,234.56", PyNone, PyNone, "5.0%", "100.00%">>
RowGrandTotal == <<"Grand Total", "", "15.00", "$1,378.56", "", "$1.50", "100.0%", "">>
RowBadQty == <<"Sushi", "Eel Roll", "12abc", "$10.00", "$10.00", "$0.00", "1.0%", "5.0%">>
RowBadDots == <<"Sushi", "Eel Roll", "1.2.3", "$10.00", "$10.00", "$0.00", "1.0%", "5.0%">>
RowBadCurrency == <<"Sushi", "Eel Roll", "1", "$abc", "$10.00", "$0.00", "1.0%", "5.0%">>
RowNoQty == <<"Sushi", "Continued", "", "", "", "", "", "">>
RowNegDiscount ==
    <<"Sushi", "Eel Roll", "1.50", "$10.00", "$10.00", "-$1.50", "1.0%", "5.0%">>
RowBlankCategory == <<PyNone, "Eel Roll", "1", "$10.00", "$10.00", "$0.00", "1.0%", "5.0%">>
RowGrandTotalBlank == <<"Grand Total", PyNone, PyNone, PyNone, PyNone, PyNone, PyNone, PyNone>>

RowPool ==
    {RowHeaderFood, RowHeaderFoodShort, RowColumnHeader, RowParenCategory, RowEmbedded,
     RowItem, RowItemFull, RowSubtotal, RowSubtotalNone, RowGrandTotal, RowBadQty,
     RowBadDots, RowBadCurrency, RowNoQty, RowNegDiscount, RowBlankCategory,
     RowGrandTotalBlank}

SeqsUpTo(S, n) == UNION {[1..k -> S] : k \in 0..n}

Word(text, x0, top) == [text |-> text, x0 |-> x0, top |-> top]

\* Three rows: 100 and 108 lie within both tolerances of each other, 130 within none.
WordPool ==
    {Word("(Food)", 50, 100), Word("7", 190, 100), Word("100.00", 510, 100),
     Word("Sushi", 50, 108), Word("4", 190, 108),
     Word("(Hot", 50, 130), Word("Tuna", 90, 130), Word("3", 190, 130),
     Word("$0.00", 230, 130), Word("$30.00", 280, 130), Word("$abc", 300, 130),
     Word("100.00", 510, 130), Word("Grand", 40, 108), Word("Total", 60, 108)}

\* page.extract_words() lists the words in reading order: by top, then by x0
RECURSIVE ReadingOrder(_)
ReadingOrder(S) ==
    IF S = {} THEN <<>>
    ELSE LET m == CHOOSE w \in S : \A v \in S : KeyLeq(w, v, "pos")
         IN  <<m>> \o ReadingOrder(S \ {m})

FirstPages == {ReadingOrder(S) : S \in {T \in SUBSET WordPool : Cardinality(T) <= MaxWords}}

SecondPages ==
    {<<>>,
     <<Word("Nigiri", 50, 100), Word("2", 190, 100)>>,
     <<Word("(Bar)", 50, 100), Word("1", 190, 100), Word("Sake", 50, 130), Word("5", 190, 130)>>,
     <<Word("Ramen", 50, 100), Word("Bowl", 90, 100), Word("2", 190, 100),
       Word("$0.00", 230, 100), Word("$18.00", 280, 100), Word("$9.00", 330, 100),
       Word("$-1.50", 380, 100)>>,
     \* one data row (top 100) with words on the edges of every column and window
     <<Word("Roll", 50, 100), Word("Tuna", 90, 100), Word("2", 185, 100), Word("9", 205, 100),
       Word("Cut", 84, 110), Word("Maki", 85, 110),
       Word("Far", 50, 111), Word("12.00", 190, 111), Word("3", 220, 111),
       Word("Wrap", 184, 115),
       Word("Out", 100, 116), Word("5", 150, 116)>>,
     <<Word("Grand", 40, 100), Word("Total", 60, 100), Word("9", 190, 100),
       Word("$0.00", 230, 100), Word("$162.00", 280, 100)>>}

-----------------------------------------------------------------------------
(* The extractor runs as a state machine *)

Acc == [records |-> records, ctx |-> current_primary_category,
        gt |-> grand_total_from_pdf, raised |-> pc = "raised", origin |-> origin]

\* The data rows parse_from_words will visit
DataRows == AllDataRows(pages, 1)

InitExtract ==
    /\ \/ /\ kind = "table"
          /\ table_rows \in SeqsUpTo(RowPool, MaxRows)
          /\ pages = <<>>
       \/ /\ kind = "words"
          /\ table_rows = <<>>
          /\ \E p1 \in FirstPages, p2 \in SecondPages :
                pages = IF p2 = <<>> THEN <<p1>> ELSE <<p1, p2>>
    /\ pos = 0
    /\ records = <<>>
    /\ current_primary_category = None
    /\ grand_total_from_pdf = None
    /\ origin = <<>>
    /\ pc = "run"

SetAcc(st) ==
    /\ records' = st.records
    /\ origin' = st.origin
    /\ current_primary_category' = st.ctx
    /\ grand_total_from_pdf' = st.gt
    /\ pc' = IF st.raised THEN "raised" ELSE "run"

\* parse_from_table: one iteration of the loop over table_rows
TableStep ==
    /\ kind = "table" /\ pc = "run" /\ pos < Len(table_rows)
    /\ SetAcc(TableRowStep(Acc, table_rows[pos + 1], pos + 1))
    /\ pos' = pos + 1
    /\ UNCHANGED <<kind, table_rows, pages, dispatchVars, pipeVars, restVars>>

\* parse_from_words: one iteration of the loop over a page's data rows
WordStep ==
    /\ kind = "words" /\ pc = "run" /\ pos < Len(DataRows)
    /\ SetAcc(WordRowStep(Acc, pages[DataRows[pos + 1][1]], DataRows[pos + 1][2],
                          DataRows[pos + 1][1]))
    /\ pos' = pos + 1
    /\ UNCHANGED <<kind, table_rows, pages, dispatchVars, pipeVars, restVars>>

\* `return records, grand_total_from_pdf`
ExtractReturn ==
    /\ pc = "run"
    /\ pos = (IF kind = "table" THEN Len(table_rows) ELSE Len(DataRows))
    /\ pc' = "done"
    /\ UNCHANGED <<kind, table_rows, pages, pos, records, current_primary_category,
                   grand_total_from_pdf, origin, dispatchVars, pipeVars, restVars>>

IdleExtract ==
    /\ kind = "idle" /\ table_rows = <<>> /\ pos = 0 /\ records = <<>>
    /\ current_primary_category = None /\ grand_total_from_pdf = None
    /\ origin = <<>> /\ pc = "idle"

IdleDispatch ==
    /\ pdf_path = "" /\ variant = "idle" /\ report_date = None
    /\ page_tables = <<>> /\ pg = 0 /\ tb = 0 /\ all_rows = <<>>
    /\ dpc = "idle" /\ ran = {} /\ result = None

IdlePipeline ==
    /\ doc = <<>> /\ program = "idle" /\ outcome = None /\ validation_log = <<>>
    /\ import_records = <<>> /\ counts = <<>> /\ bucket = {} /\ item_sales = <<>>
    /\ import_log = <<>>

IdleSession == returned = <<>>

IdleWriters == wpc = <<>> /\ log_entries = <<>> /\ log_entry = <<>> /\ serialized = FALSE

IdleNormalize == raw_value = "" /\ normalized = None

IdleTrigger == inv = <<>>

IdleRest == IdleSession /\ IdleWriters /\ IdleNormalize /\ IdleTrigger

Init == InitExtract /\ IdleDispatch /\ IdlePipeline /\ IdleRest

Next == TableStep \/ WordStep \/ ExtractReturn

Spec == Init /\ [][Next]_vars

-----------------------------------------------------------------------------
(* Parse invocations one after another in the same process *)

MaxParses == 3      \* invocations in one process

\* A document as an extractor receives it
TableDoc(rows) == [kind |-> "table", table_rows |-> rows, pages |-> <<>>]
WordDoc(pgs) == [kind |-> "words", table_rows |-> <<>>, pages |-> pgs]

SessionDocs ==
    { TableDoc(<<RowHeaderFood, RowItem, RowGrandTotal>>),
      TableDoc(<<RowItem>>),
      TableDoc(<<RowItemFull, RowBadCurrency>>),
      WordDoc(<<<<Word("(Bar)", 50, 100), Word("1", 190, 100),
                  Word("Sake", 50, 130), Word("5", 190, 130)>>>>),
      WordDoc(<<<<Word("Nigiri", 50, 100), Word("2", 190, 100)>>>>),
      WordDoc(<<<<Word("Grand", 40, 100), Word("Total", 60, 100), Word("9", 190, 100),
                  Word("$0.00", 230, 100), Word("$30.00", 280, 100)>>>>) }

\* What an invocation hands back: the records and the grand total, or an
\* exception
HandedBack(acc) == [raised |-> acc.raised, records |-> acc.records, grand_total |-> acc.gt]

\* A variant in which the context of the invocation before is kept.
FreshContext_Kept(ctx) == ctx

\* `current_primary_category = None` at the head of both extractors
FreshContext(ctx) == None

\* A process calls an extractor on a first document
InitReparse ==
    /\ \E d \in SessionDocs :
          kind = d.kind /\ table_rows = d.table_rows /\ pages = d.pages
    /\ pos = 0
    /\ records = <<>>
    /\ current_primary_category = None
    /\ grand_total_from_pdf = None
    /\ origin = <<>>
    /\ pc = "run"
    /\ returned = <<>>
    /\ IdleWriters /\ IdleNormalize /\ IdleTrigger /\ IdleDispatch /\ IdlePipeline

\* The invocation is over and the process calls an extractor again: the
\* three locals are made anew
ParseNext ==
    /\ pc \in {"done", "raised"}
    /\ Len(returned) + 1 < MaxParses
    /\ returned' = Append(returned, [document |-> [kind |-> kind, table_rows |-> table_rows,
                                                    pages |-> pages],
                                     result |-> HandedBack(Acc)])
    /\ \E d \in SessionDocs :
          kind' = d.kind /\ table_rows' = d.table_rows /\ pages' = d.pages
    /\ pos' = 0
    /\ records' = <<>>
    /\ current_primary_category' = FreshContext(current_primary_category)
    /\ grand_total_from_pdf' = None
    /\ origin' = <<>>
    /\ pc' = "run"
    /\ UNCHANGED <<writerVars, normVars, triggerVars, dispatchVars, pipeVars>>

NextReparse == TableStep \/ WordStep \/ ExtractReturn \/ ParseNext

SpecReparse == InitReparse /\ [][NextReparse]_vars

-----------------------------------------------------------------------------
(* Date Resolver: extract_date_from_filename *)

\* The indices of the occurrences of character c in s
IndicesOf(s, c) == {i \in 1..Len(s) : Ch(s, i) = c}

\* Path(p).name: the last component of the path
PathName(path) ==
    IF IndicesOf(path, "/") = {} THEN path
    ELSE SubSeq(path, MaxOfSet(IndicesOf(path, "/")) + 1, Len(path))

\* Path(p).stem: the name without its last suffix; a dot that starts or ends
\* the name is no suffix separator
PathStem(path) ==
    LET name == PathName(path)
        dots == IndicesOf(name, ".")
    IN  IF dots # {} /\ 1 < MaxOfSet(dots) /\ MaxOfSet(dots) < Len(name)
        THEN SubSeq(name, 1, MaxOfSet(dots) - 1) ELSE name

\* \d{4}-\d{2}-\d{2} matches the whole of s
IsDateToken(s) ==
    /\ Len(s) = 10
    /\ \A i \in {1, 2, 3, 4, 6, 7, 9, 10} : Ch(s, i) \in Digits
    /\ Ch(s, 5) = "-" /\ Ch(s, 8) = "-"

\* A variant without the `$` anchor: the first date-shaped token anywhere.
MatchDateAtEnd_Unanchored(s) ==
    LET hits == {i \in 1..(Len(s) - 9) : IsDateToken(SubSeq(s, i, i + 9))}
    IN  IF hits = {} THEN None
        ELSE Some(SubSeq(s, CHOOSE i \in hits : \A j \in hits : i <= j,
                         (CHOOSE i \in hits : \A j \in hits : i <= j) + 9))

\* re.search(r'(\d{4}-\d{2}-\d{2})$', s): `$` matches at the end of s and
\* before a newline that ends s
MatchDateAtEnd(s) ==
    IF Len(s) >= 10 /\ IsDateToken(SubSeq(s, Len(s) - 9, Len(s)))
    THEN Some(SubSeq(s, Len(s) - 9, Len(s)))
    ELSE IF Len(s) >= 11 /\ Ch(s, Len(s)) = "\n" /\ IsDateToken(SubSeq(s, Len(s) - 10, Len(s) - 1))
    THEN Some(SubSeq(s, Len(s) - 10, Len(s) - 1))
    ELSE None

\* The date, or None for `raise ValueError`
extract_date_from_filename(pdf_path_) == MatchDateAtEnd(PathStem(pdf_path_))

-----------------------------------------------------------------------------
(* Format Dispatcher: find_data_table and parse_pmix_pdf *)

DATA_TABLE_MIN_ROWS == 10

\* A variant that also takes a table of exactly 10 rows.
HasEnoughRows_AtLeast(table) == Len(table) >= DATA_TABLE_MIN_ROWS
\* len(table) > 10
HasEnoughRows(table) == Len(table) > DATA_TABLE_MIN_ROWS

\* row and len(row) >= 8 and row[0] and
\*   (row[0].startswith('(') or row[2] and re.match(r'[\d.]+', str(row[2])))
RowLooksLikeData(row) ==
    /\ Len(row) >= 8
    /\ Truthy(row[1])
    /\ \/ StartsWith(row[1], "(")
       \/ Truthy(row[3]) /\ MatchesNumericPrefix(row[3])

\* The inner `for row in table` loop finds such a row
TableLooksLikeData(table) == \E i \in 1..Len(table) : RowLooksLikeData(table[i])

MaxLayout == 3      \* tables and page breaks of a document

Rep(row, n) == [i \in 1..n |-> row]

RowNoCategory == <<"", "Misc", "5", "$5.00", "$1.00", "$0.00", "1.0%", "1.0%">>

TBigFood == <<RowHeaderFood>> \o Rep(RowItem, 10)
TBigBeer == <<RowColumnHeader>> \o Rep(RowItemFull, 10)
TBigJunk == Rep(RowNoQty, 11)
TTen == Rep(RowItem, 10)
TBigNoCategory == Rep(RowNoCategory, 11)

\* A document's layout is a list of tables and page breaks (0 is a page break)
TableByCode(c) ==
    CASE c = 1 -> TBigFood [] c = 2 -> TBigBeer [] c = 3 -> TBigJunk
      [] c = 4 -> TTen [] c = 5 -> TBigNoCategory

LayoutCodes == 0..5

RECURSIVE PagesOfLayout(_)
PagesOfLayout(layout) ==
    IF \E i \in 1..Len(layout) : layout[i] = 0
    THEN LET i == CHOOSE k \in 1..Len(layout) :
                      layout[k] = 0 /\ \A j \in 1..(k - 1) : layout[j] # 0
         IN  <<[j \in 1..(i - 1) |-> TableByCode(layout[j])]>>
             \o PagesOfLayout(SubSeq(layout, i + 1, Len(layout)))
    ELSE <<[j \in 1..Len(layout) |-> TableByCode(layout[j])]>>

NigiriPage == <<Word("Nigiri", 50, 100), Word("2", 190, 100), Word("$0.00", 230, 100),
                Word("$8.00", 280, 100)>>

\* A path whose name resolves to a date
ValidPath == "pmix/pmix-senso-2025-06-14.pdf"

InitDispatch ==
    /\ \E layout \in SeqsUpTo(LayoutCodes, MaxLayout), firstWords \in {<<>>, NigiriPage} :
          /\ page_tables = PagesOfLayout(layout)
          /\ pages = [p \in 1..Len(PagesOfLayout(layout)) |->
                         IF p = 1 THEN firstWords ELSE <<>>]
    /\ pdf_path = ValidPath
    /\ variant \in {"cloud", "script"}
    /\ report_date = None
    /\ pg = 1 /\ tb = 1
    /\ all_rows = <<>>
    /\ dpc = "start"
    /\ ran = {}
    /\ result = None

\* What a call returns: (records, grand_total)
Returned(acc) == [records |-> acc.records, grand_total |-> acc.gt]

\* parse_pmix_pdf up to the opening of the PDF.  pmix_parser.py lets the
\* resolver's ValueError out (line 265); parse_pmix_pdf.py catches it and
\* returns ([], None) (lines 310-314).
ResolveDate ==
    /\ dpc = "start"
    /\ LET d == extract_date_from_filename(pdf_path)
       IN  IF d # None
           THEN report_date' = d /\ dpc' = "probe" /\ result' = result
           ELSE /\ report_date' = report_date
                /\ IF variant = "cloud"
                   THEN dpc' = "raised" /\ result' = result
                   ELSE dpc' = "done" /\ result' = Some([records |-> <<>>, grand_total |-> None])
    /\ UNCHANGED <<pdf_path, variant, page_tables, pg, tb, all_rows, ran, extractVars,
                   pipeVars, restVars>>

\* find_data_table: one iteration of `for table in tables`.  The first table of
\* more than 10 rows ends the page's loop (line 63), taken or not.
ProbeTable ==
    /\ dpc = "probe" /\ pg <= Len(page_tables) /\ tb <= Len(page_tables[pg])
    /\ LET table == page_tables[pg][tb]
       IN  IF HasEnoughRows(table)
           THEN /\ all_rows' = IF TableLooksLikeData(table) THEN all_rows \o table
                               ELSE all_rows
                /\ pg' = pg + 1 /\ tb' = 1
           ELSE /\ tb' = tb + 1
                /\ UNCHANGED <<pg, all_rows>>
    /\ UNCHANGED <<pdf_path, variant, report_date, page_tables, dpc, ran, result, extractVars,
                   pipeVars, restVars>>

\* find_data_table: the page's tables are exhausted, on to the next page
ProbeNextPage ==
    /\ dpc = "probe" /\ pg <= Len(page_tables) /\ tb > Len(page_tables[pg])
    /\ pg' = pg + 1 /\ tb' = 1
    /\ UNCHANGED <<pdf_path, variant, report_date, page_tables, all_rows, dpc, ran, result,
                   extractVars, pipeVars, restVars>>

\* parse_pmix_pdf, lines 269-274: `if table_rows:` picks the extractor, whose
\* return value or exception is parse_pmix_pdf's own.
Route ==
    /\ dpc = "probe" /\ pg > Len(page_tables)
    /\ LET acc == IF all_rows # <<>> THEN parse_from_table(all_rows)
                  ELSE parse_from_words(pages)
       IN  /\ ran' = ran \cup {IF all_rows # <<>> THEN "table" ELSE "words"}
           /\ IF acc.raised THEN dpc' = "raised" /\ result' = result
              ELSE dpc' = "done" /\ result' = Some(Returned(acc))
    /\ UNCHANGED <<pdf_path, variant, report_date, page_tables, pg, tb, all_rows, extractVars,
                   pipeVars, restVars>>

InitD == InitDispatch /\ IdleExtract /\ IdlePipeline /\ IdleRest

NextDispatch == ResolveDate \/ ProbeTable \/ ProbeNextPage \/ Route

SpecDispatch == InitD /\ [][NextDispatch]_vars

\* The Date Resolver on many paths, ahead of a small fixed document
PathDirs == {"", "pmix/", "/tmp/in/"}
PathPrefixes == {"", "pmix-senso-", "report"}
PathTails == {"2025-06-14", "2025-6-14", "2025-06-14x", "20250614", "2025-06-14\n",
              "12025-06-14", "2025-06-1", "2025_06_14"}
PathExtensions == {".pdf", "", ".tar.gz"}

PathPool == {d \o n \o t \o e : d \in PathDirs, n \in PathPrefixes, t \in PathTails,
                                e \in PathExtensions}

InitDate ==
    /\ pdf_path \in PathPool
    /\ variant \in {"cloud", "script"}
    /\ report_date = None
    /\ page_tables = <<<<TTen>>>>
    /\ pages = <<NigiriPage>>
    /\ pg = 1 /\ tb = 1
    /\ all_rows = <<>>
    /\ dpc = "start"
    /\ ran = {}
    /\ result = None
    /\ IdleExtract /\ IdlePipeline /\ IdleRest

SpecDate == InitDate /\ [][NextDispatch]_vars

-----------------------------------------------------------------------------
(* Python floats.  An amount of money is a binary64 near a two-decimal      *)
(* number: the value c/100 + d/(100 * 2^s), c the amount in cents and d the *)
(* exact representation error in units of 1/(100 * 2^s).  float(), +, - and *)
(* round(x, 2) round to the nearest binary64, ties to even.                 *)

FZero == [c |-> 0, s |-> 0, d |-> 0]

\* 2^n mod 200
Pow2Mod200(n) == IF n < 3 THEN 2^n ELSE 8 * ((2^((n - 3) % 20)) % 25)

\* floor(log2(cents / 100)), cents > 0
Binade(cents) ==
    CHOOSE k \in -7..20 :
        IF k >= 0 THEN 100 * 2^k <= cents /\ cents < 200 * 2^k
        ELSE 100 <= cents * 2^(-k) /\ cents * 2^(-k) < 200

\* cents / 100 is a power of two
IsPowerOfTwo(cents) ==
    IF Binade(cents) >= 0 THEN cents = 100 * 2^Binade(cents)
    ELSE cents * 2^(-Binade(cents)) = 100

\* The scale s of the binade of mag/100 + err: 2^52 <= value * 2^s < 2^53.
\* An error below a power of two puts the value in the binade under it.
ResultScale(mag, err) ==
    52 - (IF err < 0 /\ IsPowerOfTwo(mag) THEN Binade(mag) - 1 ELSE Binade(mag))

\* (mag * 2^s3) mod 200
Residue(mag, s3) == ((mag % 200) * Pow2Mod200(s3)) % 200

\* 2^q for q > 0, else 1
Up(q) == 2^(IF q > 0 THEN q ELSE 0)

\* jf or jf + 1, the nearer to jf + twice/(2 * den); a tie goes to the one
\* that makes odd + it even
NearestOf(jf, twice, den, odd) ==
    IF twice < den THEN jf
    ELSE IF twice > den THEN jf + 1
    ELSE IF (odd + jf) % 2 = 0 THEN jf ELSE jf + 1

\* The integer nearest to num/den
NearestEven(num, den, odd) == NearestOf(num \div den, 2 * (num % den), den, odd)

\* |value| * 100 * 2^s3 = N + err/2^q with N mod 200 = rho.  The significand
\* is (N + e)/100 for the e nearest to err/2^q that makes it whole: e is
\* 100 * j - (rho mod 100), and the parity of the significand that of
\* (rho div 100) + j.
RoundedError(rho, err, q) ==
    100 * NearestEven((rho % 100) * Up(q) + err * Up(-q), 100 * Up(q), rho \div 100)
    - (rho % 100)

\* The double of sign sg, cents C and scale s3 nearest to C/100 + sg*err/(100*2^S)
Placed(C, sg, s3, S, err) ==
    [c |-> C, s |-> s3,
     d |-> sg * RoundedError(Residue(sg * C, s3), err, IF err = 0 THEN 0 ELSE S - s3)]

\* The binary64 nearest to C/100 + D/(100 * 2^S), ties to even.  A sum with
\* C = 0 is the difference of two neighbouring doubles and exact.
RoundToDouble(C, S, D) ==
    IF C = 0 THEN (IF D = 0 THEN FZero ELSE [c |-> 0, s |-> S, d |-> D])
    ELSE IF C < 0 THEN Placed(C, -1, ResultScale(-C, -D), S, -D)
    ELSE Placed(C, 1, ResultScale(C, D), S, D)

\* float("1.14"), and round(float("1.14"), 2)
FromCents(cents) == RoundToDouble(cents, 0, 0)

FNeg(x) == [c |-> -x.c, s |-> x.s, d |-> -x.d]

\* abs(x)
FAbs(x) == IF x.c < 0 \/ (x.c = 0 /\ x.d < 0) THEN FNeg(x) ELSE x

\* The errors of x and y over one denominator
CommonScale(x, y) ==
    IF x.d = 0 THEN y.s ELSE IF y.d = 0 THEN x.s ELSE IF x.s > y.s THEN x.s ELSE y.s

Scaled(x, S) == IF x.d = 0 THEN 0 ELSE x.d * 2^(S - x.s)

FAddAt(x, y, S) == RoundToDouble(x.c + y.c, S, Scaled(x, S) + Scaled(y, S))

\* x + y
FAdd(x, y) == FAddAt(x, y, CommonScale(x, y))

\* x - y
FSub(x, y) == FAdd(x, FNeg(y))

\* x > y
FGtAt(x, y, S) == x.c > y.c \/ (x.c = y.c /\ Scaled(x, S) > Scaled(y, S))

FGt(x, y) == FGtAt(x, y, CommonScale(x, y))

\* round(x, 2): the binary64 nearest to the nearest two-decimal number
Round2(x) == FromCents(x.c)

\* sum(r[field] for r in recs) over floats: left to right from the int 0
RECURSIVE FSum(_, _)
FSum(recs, field) ==
    IF recs = <<>> THEN FZero
    ELSE FAdd(FSum(SubSeq(recs, 1, Len(recs) - 1), field), FromCents(recs[Len(recs)][field]))

\* sum(r[field] for r in recs) over ints
RECURSIVE ISum(_, _)
ISum(recs, field) ==
    IF recs = <<>> THEN 0 ELSE ISum(SubSeq(recs, 1, Len(recs) - 1), field) + recs[Len(recs)][field]

-----------------------------------------------------------------------------
(* Grand-Total Validator and Anomaly Flagger *)

TOLERANCE_CENTS == 100      \* the literal 1.00

\* abs(calculated - grand_total) > 1.00
ExceedsTolerance(calculated, grand_total) ==
    FGt(FAbs(FSub(calculated, FromCents(grand_total))), FromCents(TOLERANCE_CENTS))

\* pmix_parser.validate_totals: (is_valid, message), the message without the
\* amounts it formats
validate_totals(recs, gt) ==
    IF gt = None
    THEN [is_valid |-> TRUE, message |-> "No Grand Total found in PDF (warning)"]
    ELSE IF ExceedsTolerance(FSum(recs, "net_sales"), gt[1])
    THEN [is_valid |-> FALSE, message |-> "Total mismatch"]
    ELSE [is_valid |-> TRUE, message |-> "Validated"]

\* scripts/parse_pmix_pdf.validate_totals: the bool, and the warning on stderr
script_validate_totals(recs, gt) ==
    IF gt = None
    THEN [is_valid |-> TRUE, warning |-> "Warning: No Grand Total found in PDF"]
    ELSE IF ExceedsTolerance(FSum(recs, "net_sales"), gt[1])
    THEN [is_valid |-> FALSE, warning |-> "Warning: Total mismatch!"]
    ELSE [is_valid |-> TRUE, warning |-> ""]

\* The index of the first whitespace character of t, Len(t) + 1 without one
FirstWhitespace(t) ==
    CHOOSE i \in 1..(Len(t) + 1) :
        /\ i = Len(t) + 1 \/ Ch(t, i) \in Whitespace
        /\ \A k \in 1..(i - 1) : Ch(t, k) \notin Whitespace

\* s.split(): the maximal runs of non-whitespace characters
RECURSIVE SplitWS(_)
SplitStripped(t) ==
    IF t = "" THEN <<>>
    ELSE <<SubSeq(t, 1, FirstWhitespace(t) - 1)>>
         \o SplitWS(SubSeq(t, FirstWhitespace(t), Len(t)))

SplitWS(s) == SplitStripped(LStrip(s))

\* len(words) != len(set(words))
HasRepeatedWord(words) == Len(words) # Cardinality({words[i] : i \in 1..Len(words)})

Issue(kind_, item, cat) == [kind |-> kind_, item |-> item, cat |-> cat]

TotalMismatchIssue == Issue("Total mismatch", "", "")

\* records[:n]
FirstN(seq, n) == SubSeq(seq, 1, IF Len(seq) < n THEN Len(seq) ELSE n)

SAMPLE_IMPORT == 20         \* records[:20]
SAMPLE_CLAUDE == 10         \* records[:10]
ISSUES_LOGGED_MAX == 10     \* issues[:10]

ALLOW_IMPORT == {"", "GF", "V", "VG"}
ALLOW_CLAUDE == {"", "GF", "V"}

\* The issues one sampled record adds, in the order the loop appends them
RecordIssues(r, allow, shortKind, minWords) ==
    (IF Len(r.item_name) <= 2 /\ r.item_name \notin allow
     THEN <<Issue(shortKind, r.item_name, r.category)>> ELSE <<>>)
    \o
    (IF Len(SplitWS(r.category)) >= minWords /\ HasRepeatedWord(SplitWS(r.category))
     THEN <<Issue("Duplicate words in category", "", r.category)>> ELSE <<>>)

RECURSIVE SampleIssues(_, _, _, _)
SampleIssues(sample, allow, shortKind, minWords) ==
    IF sample = <<>> THEN <<>>
    ELSE SampleIssues(SubSeq(sample, 1, Len(sample) - 1), allow, shortKind, minWords)
         \o RecordIssues(sample[Len(sample)], allow, shortKind, minWords)

\* A variant that flags a total mismatch only.
StatusOf_TotalOnly(issues) ==
    IF \E i \in 1..Len(issues) : issues[i] = TotalMismatchIssue THEN "flagged" ELSE "approved"

\* 'approved' if len(issues) == 0 else 'flagged'
StatusOf(issues) == IF Len(issues) = 0 THEN "approved" ELSE "flagged"

\* Counter(r.get('primary_category', 'Unknown') for r in records)
CategoryCounts(recs) ==
    [k \in {recs[i].primary_category : i \in 1..Len(recs)} |->
        Cardinality({i \in 1..Len(recs) : recs[i].primary_category = k})]

\* `if grand_total is not None: ... if diff > 1.00: issues.append(...)`
TotalIssues(total, gt) ==
    IF gt # None /\ ExceedsTolerance(total, gt[1]) THEN <<TotalMismatchIssue>> ELSE <<>>

\* The log entry of import_pmix.validate_parsed (the timestamp left out)
LogEntry(issues, calculated_total, recs, gt, date, path) ==
    [date             |-> date,
     pdf              |-> path,
     status           |-> StatusOf(issues),
     issues           |-> FirstN(issues, ISSUES_LOGGED_MAX),
     calculated_total |-> Round2(calculated_total).c,
     pdf_total        |-> gt,
     record_count     |-> Len(recs),
     total_qty        |-> ISum(recs, "quantity_sold"),
     categories       |-> CategoryCounts(recs)]

\* import_pmix.validate_parsed from `calculated_total` on
ValidateParsedFrom(calculated_total, recs, gt, date, path) ==
    LogEntry(TotalIssues(calculated_total, gt)
                 \o SampleIssues(FirstN(recs, SAMPLE_IMPORT), ALLOW_IMPORT,
                                 "Short item name", 2),
             calculated_total, recs, gt, date, path)

\* import_pmix.validate_parsed: the entry it logs and returns
validate_parsed(recs, gt, date, path) ==
    ValidateParsedFrom(FSum(recs, "net_sales"), recs, gt, date, path)

\* What validate_with_claude returns
ClaudeResult(issues, total_sales, recs, gt) ==
    [status           |-> StatusOf(issues),
     issues           |-> issues,
     calculated_total |-> total_sales.c,
     pdf_total        |-> gt,
     record_count     |-> Len(recs),
     total_qty        |-> ISum(recs, "quantity_sold"),
     categories       |-> CategoryCounts(recs)]

\* validate_with_claude from totals['total_sales'] on
ValidateWithClaudeFrom(total_sales, recs, gt) ==
    ClaudeResult(TotalIssues(total_sales, gt)
                     \o SampleIssues(FirstN(recs, SAMPLE_CLAUDE), ALLOW_CLAUDE,
                                     "Suspicious item name", 0),
                 total_sales, recs, gt)

\* validate_parsed.validate_with_claude: calculate_totals rounds the total
validate_with_claude(recs, gt) ==
    ValidateWithClaudeFrom(Round2(FSum(recs, "net_sales")), recs, gt)

\* validate_parsed.py main: log_entry = {'date', 'pdf', 'timestamp', **result}
ScriptLogEntry(date, pdf, res) ==
    [date             |-> date,
     pdf              |-> pdf,
     status           |-> res.status,
     issues           |-> res.issues,
     calculated_total |-> res.calculated_total,
     pdf_total        |-> res.pdf_total,
     record_count     |-> res.record_count,
     total_qty        |-> res.total_qty,
     categories       |-> res.categories]

\* create_closed_placeholder
create_closed_placeholder(date) ==
    [report_date |-> date, primary_category |-> None, category |-> PyNone,
     item_name |-> "[CLOSED]", quantity_sold |-> 0, net_sales |-> 0, discount |-> 0]

-----------------------------------------------------------------------------
(* The pipelines around the validator and the flagger: the CLI             *)
(* (parse_pmix_pdf.main), the bulk import (import_pmix.main) and the cloud  *)
(* function (process_pmix).  doc is what parse_pmix_pdf makes of the PDF.   *)

MaxRecs == 3

Item(cat, name, qty, net) ==
    [primary_category |-> Some("(Food)"), category |-> cat, item_name |-> name,
     quantity_sold |-> qty, net_sales |-> net, discount |-> 0]

RecordPool ==
    { Item("Sushi", "Eel Roll", 1, 114),
      Item("Sushi", "Spicy Tuna Roll", 12, 49850),
      Item("Rolls", "GF", 3, 50),
      Item("Hot Hot Pot", "X", 1, 1) }

GrandTotalPool == {None, Some(214), Some(49950)}

\* (records, grand_total) returned, or an exception out of the parser
Docs ==
    { [raised |-> FALSE, records |-> rs, grand_total |-> gt] :
          rs \in SeqsUpTo(RecordPool, MaxRecs), gt \in GrandTotalPool }
    \cup { [raised |-> TRUE, records |-> <<>>, grand_total |-> None] }

DATE == "2025-06-14"
DAY_BEFORE == "2025-06-13"
PDF_PATH == "pmix/pmix-senso-2025-06-14.pdf"
LOCATION == "senso-sushi"

Blobs ==
    { "incoming/pmix-senso-2025-06-14.pdf",
      "incoming/resend/pmix-senso-2025-06-14.pdf",
      "incoming/notes.pdf",
      "archive/pmix-senso-2025-06-14.pdf" }

\* A row of restaurant_analytics.item_sales
SalesRow(date, rec) == [report_date |-> date, location |-> LOCATION, item |-> rec]

RECURSIVE SalesRows(_, _)
SalesRows(date, recs) ==
    IF recs = <<>> THEN <<>>
    ELSE SalesRows(date, SubSeq(recs, 1, Len(recs) - 1)) \o <<SalesRow(date, recs[Len(recs)])>>

OldItem == Item("Sides", "Rice", 2, 300)

\* The table before the upload: a row of the day before and one of DATE
InitialSales == <<SalesRow(DAY_BEFORE, OldItem), SalesRow(DATE, OldItem)>>

\* An entry a former run left in the validation log
StaleEntry == validate_parsed(<<OldItem>>, None, DAY_BEFORE, "pmix/pmix-senso-2025-06-13.pdf")

InitPipeline ==
    /\ doc \in Docs
    /\ program = "none"
    /\ outcome = None
    /\ validation_log \in {<<>>, <<StaleEntry>>}
    /\ import_records = <<>>
    /\ counts = None
    /\ bucket = Blobs
    /\ item_sales = InitialSales
    /\ import_log = <<>>
    /\ pages = <<>>
    /\ IdleExtract /\ IdleDispatch /\ IdleRest

\* A direct call of pmix_parser.validate_totals on the parsed document
CallValidateTotals ==
    /\ program = "none" /\ ~doc.raised
    /\ program' = "validate_totals"
    /\ outcome' = Some(validate_totals(doc.records, doc.grand_total))
    /\ UNCHANGED <<doc, validation_log, import_records, counts, bucket, item_sales, import_log,
                   extractVars, dispatchVars, restVars>>

\* A direct call of parse_pmix_pdf.validate_totals
CallScriptValidateTotals ==
    /\ program = "none" /\ ~doc.raised
    /\ program' = "script_validate_totals"
    /\ outcome' = Some(script_validate_totals(doc.records, doc.grand_total))
    /\ UNCHANGED <<doc, validation_log, import_records, counts, bucket, item_sales, import_log,
                   extractVars, dispatchVars, restVars>>

\* import_pmix.validate_parsed: the entry is appended to the log file's
\* entries and returned
CallValidateParsed ==
    /\ program = "none" /\ ~doc.raised
    /\ program' = "validate_parsed"
    /\ \E entry \in {validate_parsed(doc.records, doc.grand_total, DATE, PDF_PATH)} :
          /\ outcome' = Some(entry)
          /\ validation_log' = Append(validation_log, entry)
    /\ UNCHANGED <<doc, import_records, counts, bucket, item_sales, import_log,
                   extractVars, dispatchVars, restVars>>

\* validate_parsed.validate_with_claude
CallValidateWithClaude ==
    /\ program = "none" /\ ~doc.raised
    /\ program' = "validate_with_claude"
    /\ outcome' = Some(validate_with_claude(doc.records, doc.grand_total))
    /\ UNCHANGED <<doc, validation_log, import_records, counts, bucket, item_sales, import_log,
                   extractVars, dispatchVars, restVars>>

\* validate_parsed.py main on the records file the CLI wrote for the document:
\* without the file or without records it exits with status 1 before it
\* validates; else the entry is appended to the log and the status tells
\* whether the document was approved.
ValidateParsedMain ==
    /\ program = "none" /\ ~doc.raised
    /\ program' = "validate_parsed.py"
    /\ \E records_exist \in BOOLEAN,
          entry \in {ScriptLogEntry(DATE, PDF_PATH,
                                    validate_with_claude(doc.records, doc.grand_total))} :
          IF ~records_exist \/ doc.records = <<>>
          THEN /\ outcome' = Some([exit_code |-> 1, logged |-> FALSE])
               /\ UNCHANGED validation_log
          ELSE /\ outcome' = Some([exit_code |-> IF entry.status = "approved" THEN 0 ELSE 1,
                                    logged |-> TRUE])
               /\ validation_log' = Append(validation_log, entry)
    /\ UNCHANGED <<doc, import_records, counts, bucket, item_sales, import_log,
                   extractVars, dispatchVars, restVars>>

\* The paths the CLI is given: one whose name resolves to a date, one whose
\* name does not
CliPaths == {PDF_PATH, "pmix/report.pdf"}

\* The script's parse_pmix_pdf returns no records for a name without a date,
\* before it opens the PDF
CliRecords(path, d) ==
    IF extract_date_from_filename(path) = None THEN <<>> ELSE d.records

\* The exception that ends main, if any: out of the parser, or out of
\* output_ndjson when the output cannot be written
CliRaises(path, d, output_writable) ==
    \/ extract_date_from_filename(path) # None /\ d.raised
    \/ CliRecords(path, d) # <<>> /\ ~output_writable

\* A variant in which an empty result is no failure.
NoRecords_Never(recs) == FALSE

\* `if not records:`
NoRecords(recs) == recs = <<>>

\* The exit status of main: sys.exit(1) for a missing file and for no
\* records, 1 from the interpreter for an uncaught exception, else 0
CliExitCode(file_exists, path, d, output_writable) ==
    IF ~file_exists THEN 1
    ELSE IF CliRaises(path, d, output_writable) THEN 1
    ELSE IF NoRecords(CliRecords(path, d)) THEN 1
    ELSE 0

\* parse_pmix_pdf.main: the path argument, whether it exists and whether the
\* output can be written; the exit status, the records written and the
\* warning of validate_totals that come of it.
CliMain ==
    /\ program = "none"
    /\ program' = "cli"
    /\ \E validation \in {script_validate_totals(doc.records, doc.grand_total)} :
       \E file_exists \in BOOLEAN, output_writable \in BOOLEAN, path \in CliPaths :
       \E code \in {CliExitCode(file_exists, path, doc, output_writable)} :
          outcome' =
              Some([file_exists |-> file_exists, pdf_path |-> path,
                    output_writable |-> output_writable,
                    exit_code |-> code,
                    written |-> IF code = 0 THEN CliRecords(path, doc) ELSE <<>>,
                    warning |-> IF code = 0 THEN validation.warning ELSE ""])
    /\ UNCHANGED <<doc, validation_log, import_records, counts, bucket, item_sales, import_log,
                   extractVars, dispatchVars, restVars>>

\* import_pmix.main, the loop over expected_dates: what one date adds to
\* all_records and to the counters.  The date before DATE has no PDF.
Tally(parsed, closed, errors, flagged) ==
    [parsed_count |-> parsed, closed_count |-> closed, error_count |-> errors,
     flagged_count |-> flagged]

\* `if validation['status'] == 'flagged': flagged_count += 1`
FlaggedIncrement(skip_validation, entry) ==
    IF ~skip_validation /\ entry.status = "flagged" THEN 1 ELSE 0

\* A variant in which a date without a PDF adds nothing.
MissingDays_Skipped(start_date) == <<>>

\* The placeholders of the expected dates before DATE: the day before has no PDF
MissingDays(start_date) ==
    IF start_date = DAY_BEFORE THEN <<create_closed_placeholder(DAY_BEFORE)>> ELSE <<>>

\* A variant in which the bulk import leaves the log file in place.
Cleared_Kept(skip_validation, log) == log

\* `if not args.skip_validation and os.path.exists(...): os.remove(...)`
Cleared(skip_validation, log) == IF skip_validation THEN log ELSE <<>>

\* import_pmix.main with --output: the validation log is removed unless
\* --skip-validation, every expected date adds records or a placeholder to
\* all_records (`all_records.extend(records)` whatever the validation said),
\* the records are written, and unless --dry-run the date range is replaced
\* in BigQuery by the `bq` commands.
ImportMain ==
    /\ program = "none"
    /\ program' = "import"
    /\ \E entry \in {validate_parsed(doc.records, doc.grand_total, DATE, PDF_PATH)} :
       \E skip_validation \in BOOLEAN, start_date \in {DAY_BEFORE, DATE},
          dry_run \in BOOLEAN, bq_failure \in {"none", "delete", "load"} :
          /\ validation_log' =
                 IF doc.raised \/ doc.records = <<>> \/ skip_validation
                 THEN Cleared(skip_validation, validation_log)
                 ELSE Append(Cleared(skip_validation, validation_log), entry)
          /\ counts' =
                 IF doc.raised THEN Some(Tally(0, Len(MissingDays(start_date)), 1, 0))
                 ELSE IF doc.records = <<>>
                 THEN Some(Tally(0, Len(MissingDays(start_date)) + 1, 0, 0))
                 ELSE Some(Tally(1, Len(MissingDays(start_date)), 0,
                                 FlaggedIncrement(skip_validation, entry)))
          /\ import_records' =
                 MissingDays(start_date) \o
                 (IF doc.raised \/ doc.records = <<>>
                  THEN <<create_closed_placeholder(DATE)>>
                  ELSE doc.records)
          /\ outcome' = Some([skip_validation |-> skip_validation,
                               start_date |-> start_date,
                               parse_calls |-> <<PDF_PATH>>,
                               log_removed |-> ~skip_validation /\ validation_log # <<>>,
                               exit_code |-> IF dry_run \/ bq_failure = "none" THEN 0 ELSE 1,
                               loaded    |-> ~dry_run /\ bq_failure = "none"])
    /\ UNCHANGED <<doc, bucket, item_sales, import_log, extractVars, dispatchVars, restVars>>

\* ^pmix-senso-(\d{4}-\d{2}-\d{2})\.pdf$ on a name without a final newline
MatchFilename(s) ==
    IF /\ Len(s) = 25 /\ StartsWith(s, "pmix-senso-")
       /\ IsDateToken(SubSeq(s, 12, 21)) /\ SubSeq(s, 22, 25) = ".pdf"
    THEN Some(SubSeq(s, 12, 21)) ELSE None

\* FILENAME_PATTERN.match(file_name): `$` also matches before a final newline
FilenameDate(file_name) ==
    MatchFilename(IF EndsWith(file_name, "\n") THEN SubSeq(file_name, 1, Len(file_name) - 1)
                  ELSE file_name)

\* A variant that counts only the successful imports.
is_already_imported_SuccessOnly(log, date) ==
    \E i \in 1..Len(log) : log[i].report_date = date /\ log[i].status = "success"
\* is_already_imported: any row of the import log for the date
is_already_imported(log, date) == \E i \in 1..Len(log) : log[i].report_date = date

\* delete_existing_data
delete_existing_data(rows, date) ==
    SelectSeq(rows, LAMBDA row : ~(row.report_date = date /\ row.location = LOCATION))

ImportLogRow(file_name, date, status, record_count, total_sales, error_message) ==
    [file_name |-> file_name, report_date |-> date, status |-> status,
     record_count |-> record_count, total_sales |-> total_sales,
     error_message |-> error_message]

\* A variant in which a failed validation stops nothing.
RejectsInvalid_Never(validation) == FALSE

\* `if not is_valid: raise ValueError(validation_msg)`
RejectsInvalid(validation) == ~validation.is_valid

\* The ValueError of a failed validation, "" without one
ValidationError(validation) ==
    IF RejectsInvalid(validation) THEN "ValueError: " \o validation.message ELSE ""

\* The exception the try block of process_pmix ends with before it touches
\* the table, or "" when it gets as far as delete_existing_data
EarlyError(d) ==
    IF d.raised THEN "Exception: parse"
    ELSE IF d.records = <<>> THEN "ValueError: No records found in PDF"
    ELSE ValidationError(validate_totals(d.records, d.grand_total))

INSERT_ERROR == "RuntimeError: BigQuery insert errors"

\* What one invocation of process_pmix came to
Handled(blob_name, res, err) == Some([blob |-> blob_name, result |-> res, error |-> err])

\* process_pmix on the upload event of a blob in the bucket
ProcessPmix ==
    /\ program \in {"none", "process_pmix"}
    /\ program' = "process_pmix"
    /\ \E err \in {EarlyError(doc)} :
       \E blob_name \in bucket, insert_ok \in BOOLEAN :
       \E m \in {FilenameDate(PathName(blob_name))} :
          IF ~StartsWith(blob_name, "incoming/")
          THEN /\ outcome' = Handled(blob_name, "skipped", "")
               /\ UNCHANGED <<bucket, item_sales, import_log>>
          ELSE IF m = None
          THEN /\ outcome' = Handled(blob_name, "invalid_filename", "")
               /\ bucket' = bucket \ {blob_name}
               /\ UNCHANGED <<item_sales, import_log>>
          ELSE IF is_already_imported(import_log, m[1])
          THEN /\ outcome' = Handled(blob_name, "already_imported", "")
               /\ bucket' = bucket \ {blob_name}
               /\ UNCHANGED <<item_sales, import_log>>
          ELSE IF err # ""
          THEN /\ outcome' = Handled(blob_name, "failed", err)
               /\ import_log' = Append(import_log,
                      ImportLogRow(PathName(blob_name), m[1], "failed", None, None, err))
               /\ bucket' = bucket \ {blob_name}
               /\ UNCHANGED item_sales
          ELSE IF ~insert_ok
          THEN /\ outcome' = Handled(blob_name, "failed", INSERT_ERROR)
               /\ item_sales' = delete_existing_data(item_sales, m[1])
               /\ import_log' = Append(import_log,
                      ImportLogRow(PathName(blob_name), m[1], "failed", None, None,
                                   INSERT_ERROR))
               /\ bucket' = bucket \ {blob_name}
          ELSE /\ outcome' = Handled(blob_name, "success", "")
               /\ item_sales' = delete_existing_data(item_sales, m[1])
                                \o SalesRows(m[1], doc.records)
               /\ import_log' = Append(import_log,
                      ImportLogRow(PathName(blob_name), m[1], "success",
                                   Some(Len(doc.records)),
                                   Some(FSum(doc.records, "net_sales")), ""))
               /\ bucket' = bucket \ {blob_name}
    /\ UNCHANGED <<doc, validation_log, import_records, counts, extractVars, dispatchVars,
                   restVars>>

NextPipeline ==
    \/ CallValidateTotals
    \/ CallScriptValidateTotals
    \/ CallValidateParsed
    \/ CallValidateWithClaude
    \/ ValidateParsedMain
    \/ CliMain
    \/ ImportMain
    \/ ProcessPmix

SpecPipeline == InitPipeline /\ [][NextPipeline]_vars

-----------------------------------------------------------------------------
(* The value normalizers called on their own *)

ValuePrefixes == {"", " ", "$", "$ ", "\t", "-$"}
ValueBodies == {"", "7", "7.00", "1,234.56", "1 234", "1\t234", "abc", ".5", "12.99", "1.2.3"}
ValueSuffixes == {"", " ", "\n"}

\* The cell texts handed to the normalizers, and an unset cell
ValuePool ==
    {a \o b \o c : a \in ValuePrefixes, b \in ValueBodies, c \in ValueSuffixes}
    \cup {PyNone}

InitNormalize ==
    /\ raw_value \in ValuePool
    /\ normalized = None
    /\ pages = <<>>
    /\ IdleExtract /\ IdleDispatch /\ IdlePipeline /\ IdleSession /\ IdleWriters
    /\ IdleTrigger

\* parse_currency(value) and parse_quantity(value), each returning or raising
CallNormalizers ==
    /\ normalized = None
    /\ normalized' = Some([currency |-> parse_currency(raw_value),
                           quantity |-> parse_quantity(raw_value)])
    /\ UNCHANGED <<raw_value, extractVars, dispatchVars, pipeVars, sessionVars, writerVars,
                   triggerVars>>

NextNormalize == CallNormalizers

SpecNormalize == InitNormalize /\ [][NextNormalize]_vars

-----------------------------------------------------------------------------
(* Writers of the validation log: append_to_log (validate_parsed.py) and   *)
(* the tail of import_pmix.validate_parsed, each a process of its own      *)

MaxWriters == 2

Writers == 1..MaxWriters

WriterDates == <<"2025-06-14", "2025-06-15", "2025-06-16", "2025-06-17">>

PathOfDate(date) == "pmix/pmix-senso-" \o date \o ".pdf"

\* The records a writer's program has validated
WriterRecords == <<Item("Hot Hot Pot", "X", 1, 1)>>

\* The entry a writer of either program appends for its date
EntryOf(prog, date) ==
    IF prog = "import_pmix"
    THEN validate_parsed(WriterRecords, None, date, PathOfDate(date))
    ELSE ScriptLogEntry(date, PathOfDate(date), validate_with_claude(WriterRecords, None))

\* What is left of a file that two writers both opened with 'w' and wrote
\* from offset 0, the shorter text last: no JSON document
CorruptFile == <<[date |-> "<corrupt>"]>>

\* A variant in which the writer starts from an empty list.
LoadedEntries_Empty(file) == <<>>

\* json.load(f), `except json.JSONDecodeError: log_entries = []`
LoadedEntries(file) == IF file = CorruptFile THEN <<>> ELSE file

\* The file after a writer's text went to offset 0 of what is there
Overwritten(file, entries) ==
    IF file # CorruptFile /\ Len(file) > Len(entries) THEN CorruptFile ELSE entries

InitLog ==
    /\ validation_log = <<StaleEntry>>
    /\ wpc = [w \in Writers |-> "start"]
    /\ log_entries = [w \in Writers |-> <<>>]
    /\ \E progs \in [Writers -> {"import_pmix", "validate_parsed.py"}] :
          log_entry = [w \in Writers |-> EntryOf(progs[w], WriterDates[w])]
    /\ serialized \in BOOLEAN
    /\ doc = <<>> /\ program = "idle" /\ outcome = None
    /\ import_records = <<>> /\ counts = <<>> /\ bucket = {} /\ item_sales = <<>>
    /\ import_log = <<>>
    /\ pages = <<>>
    /\ IdleExtract /\ IdleDispatch /\ IdleSession /\ IdleNormalize /\ IdleTrigger

\* External serialization: a writer starts when no other is under way
MayStart(w) == serialized => \A v \in Writers \ {w} : wpc[v] \in {"start", "done"}

\* `log_entries = json.load(f)` and `log_entries.append(entry)`
LoadLog(w) ==
    /\ wpc[w] = "start" /\ MayStart(w)
    /\ log_entries' = [log_entries EXCEPT ![w] =
                           Append(LoadedEntries(validation_log), log_entry[w])]
    /\ wpc' = [wpc EXCEPT ![w] = "loaded"]
    /\ UNCHANGED <<log_entry, serialized, validation_log>>

\* `open(log_path, 'w')` truncates the file
OpenLog(w) ==
    /\ wpc[w] = "loaded"
    /\ validation_log' = <<>>
    /\ wpc' = [wpc EXCEPT ![w] = "opened"]
    /\ UNCHANGED <<log_entries, log_entry, serialized>>

\* `json.dump(log_entries, f, indent=2)` and the close that writes it out
DumpLog(w) ==
    /\ wpc[w] = "opened"
    /\ validation_log' = Overwritten(validation_log, log_entries[w])
    /\ wpc' = [wpc EXCEPT ![w] = "done"]
    /\ UNCHANGED <<log_entries, log_entry, serialized>>

\* What no writer touches
LogFrame ==
    UNCHANGED <<doc, program, outcome, import_records, counts, bucket, item_sales,
                import_log, extractVars, dispatchVars, sessionVars, normVars, triggerVars>>

NextLog ==
    \/ \E w \in Writers : LoadLog(w) /\ LogFrame
    \/ \E w \in Writers : OpenLog(w) /\ LogFrame
    \/ \E w \in Writers : DumpLog(w) /\ LogFrame

SpecLog == InitLog /\ [][NextLog]_vars

-----------------------------------------------------------------------------
(* Claims about the extractors, checked under Spec *)

\* The label a table row sets as a header row, None when it sets none: a row
\* of at least 8 cells whose first cell is a column header with an embedded
\* parenthesized line, begins with a parenthesized first line, or is
\* parenthesized itself.
TableHeaderLabel(row) ==
    IF Len(row) < 8 THEN None
    ELSE IF IsColumnHeader(Cell0(row)) THEN ColumnHeaderToken(Cell0(row))
    ELSE IF IsEmbeddedHeader(Cell0(row)) THEN EmbeddedHeaderToken(Cell0(row))
    ELSE IF IsParenthesized(Cell0(row)) THEN Some(Cell0(row))
    ELSE None

\* The label of the last header row before row i of the table
TableLabelBefore(i) ==
    LET hs == {j \in 1..(i - 1) : TableHeaderLabel(table_rows[j]) # None}
    IN  IF hs = {} THEN None ELSE TableHeaderLabel(table_rows[MaxOfSet(hs)])

\* Data row a comes before data row b in document order (page, then top)
RowBefore(a, b) == a[1] < b[1] \/ (a[1] = b[1] /\ a[2] < b[2])

\* The data rows whose category text is parenthesized
WordHeaderRows ==
    {i \in 1..Len(DataRows) : IsParenthesized(CategoryText(pages[DataRows[i][1]], DataRows[i][2]))}

\* The label of the last header row before data row d = <<page, top>>
WordLabelBefore(d) ==
    LET hs == {i \in WordHeaderRows : RowBefore(DataRows[i], d)}
    IN  IF hs = {} THEN None
        ELSE Some(CategoryText(pages[DataRows[MaxOfSet(hs)][1]], DataRows[MaxOfSet(hs)][2]))

\* C1: in both extractors every record's primary_category is the label of the
\* last context-setting header row before the record's row in document order
\* (across rows and pages), and None exactly when no such row precedes it.
C1_PrimaryCategoryIsLastHeader ==
    \A k \in 1..Len(records) :
        records[k].primary_category =
            IF kind = "table" THEN TableLabelBefore(origin[k][1])
            ELSE WordLabelBefore(origin[k])

\* C1 witness: a record of the second page carries the header of the first
\* page, and the run has returned.
C1_Witness ==
    /\ kind = "words" /\ pc = "done"
    /\ \E k \in 1..Len(records) :
          origin[k][1] = 2 /\ records[k].primary_category = Some("(Food)")

\* A first cell that is a fully parenthesized token
C2_ParenHeaderRow(row) == Len(row) >= 1 /\ Truthy(row[1]) /\ IsParenthesized(row[1])

\* An 8-cell row the extractor treats as an item row
C2_ItemRow(row) == Len(row) = 8 /\ TableRule(row) = "item" /\ ~ItemRowRaises(row)

\* The record the claim describes for an item row under a context
C2_Expected(row, ctx) ==
    [primary_category |-> ctx,
     category         |-> Strip(StrOr(row[1], "")),
     item_name        |-> Strip(StrOr(row[2], "")),
     quantity_sold    |-> parse_quantity(row[3]).n,
     net_sales        |-> parse_currency(row[4]).cents,
     discount         |-> parse_currency(row[6]).cents]

C2_Case == /\ kind = "table" /\ pc = "done" /\ Len(table_rows) = 2
           /\ C2_ParenHeaderRow(table_rows[1]) /\ C2_ItemRow(table_rows[2])

\* C2 as claimed: a header row whose first cell is a fully parenthesized token,
\* a single-cell row included, followed by an 8-cell item row gives exactly
\* one record, built from the item row, whose primary_category is the token.
C2_HeaderThenItem_Claimed ==
    C2_Case => records = <<C2_Expected(table_rows[2], Some(table_rows[1][1]))>>

\* C2 amended: the same holds when the header row has at least 8 cells and its
\* token is on one line and names neither "Menu Group" nor "Category"; a header
\* row of fewer than 8 cells is skipped, and the record's primary_category is
\* None.  Scenario A's item row gives Sushi / Spicy Tuna Roll / 12 / 144.00 / 0.00.
C2_HeaderThenItem ==
    C2_Case =>
        /\ Len(records) = 1
        /\ (/\ Len(table_rows[1]) >= 8
            /\ ~Contains(table_rows[1][1], "\n")
            /\ ~IsColumnHeader(table_rows[1][1]))
           => records = <<C2_Expected(table_rows[2], Some(table_rows[1][1]))>>
        /\ Len(table_rows[1]) < 8 => records = <<C2_Expected(table_rows[2], None)>>
        /\ table_rows[2] = RowItem =>
              /\ records[1].category = "Sushi"
              /\ records[1].item_name = "Spicy Tuna Roll"
              /\ records[1].quantity_sold = 12
              /\ records[1].net_sales = 14400
              /\ records[1].discount = 0

\* C2 witness: the single-cell header row of Scenario A, then its item row
C2_Witness ==
    /\ kind = "table" /\ pc = "done"
    /\ table_rows = <<RowHeaderFoodShort, RowItem>>
    /\ Len(records) = 1 /\ records[1].primary_category = None

\* A table row whose percent-of-category cell is "100.00%" and whose item-name
\* cell is empty
C3_SubtotalShaped(row) == Len(row) >= 8 /\ row[8] = "100.00%" /\ row[2] \in {"", PyNone}

\* C3: parse_from_table never emits a record for a row whose cell 7 is
\* "100.00%" and whose cell 1 is empty.
C3_NoRecordForTableSubtotal ==
    kind = "table" =>
        \A k \in 1..Len(records) : ~C3_SubtotalShaped(table_rows[origin[k][1]])

\* C3 witness: such a row with a numeric quantity was consumed after an item
\* row, and only the item row gave a record.
C3_Witness ==
    /\ kind = "table" /\ pc = "done"
    /\ table_rows = <<RowItem, RowSubtotal>>
    /\ Len(records) = 1 /\ origin = <<<<1>>>>

\* C4 as claimed: parse_from_words never emits a record for a data row that
\* holds "100.00" at x0 > 500 and has an empty reconstructed item name,
\* whatever its category text.
C4_NoRecordForWordSubtotal_Claimed ==
    kind = "words" =>
        \A k \in 1..Len(records) :
            ~(/\ IsCategoryHeader(RowsByY(pages[origin[k][1]], origin[k][2]))
              /\ ItemName(pages[origin[k][1]], origin[k][2]) = "")

\* C9 as claimed: a malformed row (wrong cell count, a quantity or currency
\* cell that is no number) is skipped and the run never raises.
C9_MalformedRowNeverAborts_Claimed == pc # "raised"

-----------------------------------------------------------------------------
(* Claims about the Format Dispatcher, checked under SpecDispatch *)

RECURSIVE ConcatAll(_)
ConcatAll(ss) == IF ss = <<>> THEN <<>> ELSE Head(ss) \o ConcatAll(Tail(ss))

\* A row with a parenthesized first cell or a numeric-looking third cell, as
\* the probe reads it: at least 8 cells, a non-empty first cell, and a first
\* cell that starts with "(" or a third cell that starts with a digit or "."
C5_RowQualifies(row) ==
    /\ Len(row) >= 8 /\ row[1] \notin {"", PyNone}
    /\ \/ Ch(row[1], 1) = "("
       \/ row[3] \notin {"", PyNone} /\ Ch(row[3], 1) \in Digits \cup {"."}

\* An accepted table: more than 10 rows and at least one such row
C5_Accepted(table) ==
    /\ Len(table) > DATA_TABLE_MIN_ROWS
    /\ \E i \in 1..Len(table) : C5_RowQualifies(table[i])

\* What page p contributes: the rows of its first table of more than 10 rows,
\* when that table is accepted; nothing otherwise.
PageContribution(p) ==
    LET big == {t \in 1..Len(page_tables[p]) : Len(page_tables[p][t]) > DATA_TABLE_MIN_ROWS}
        first == CHOOSE t \in big : \A u \in big : t <= u
    IN  IF big # {} /\ C5_Accepted(page_tables[p][first])
        THEN page_tables[p][first] ELSE <<>>

ContributedRows == ConcatAll([p \in 1..Len(page_tables) |-> PageContribution(p)])

C5_AcceptedRowsOfPage(p) ==
    ConcatAll([t \in 1..Len(page_tables[p]) |->
                  IF C5_Accepted(page_tables[p][t]) THEN page_tables[p][t] ELSE <<>>])

C5_AcceptedRows == ConcatAll([p \in 1..Len(page_tables) |-> C5_AcceptedRowsOfPage(p)])

\* parse_pmix_pdf has ended, by a return or by an extractor's exception
C5_Finished == dpc \in {"done", "raised"}

\* parse_pmix_pdf ended as the extractor run acc ends
C5_Outcome(acc) ==
    IF acc.raised THEN dpc = "raised" /\ result = None
    ELSE dpc = "done" /\ result = Some([records |-> acc.records, grand_total |-> acc.gt])

\* C5 as claimed: the result is the Table Extractor on the rows of every
\* accepted table of the document, in page order, when a table is accepted,
\* and the Word-Position Extractor on the document otherwise.
C5_Dispatch_Claimed ==
    C5_Finished =>
        IF C5_AcceptedRows # <<>>
        THEN ran = {"table"} /\ C5_Outcome(parse_from_table(C5_AcceptedRows))
        ELSE ran = {"words"} /\ C5_Outcome(parse_from_words(pages))

\* C5 amended: the result is the Table Extractor on the rows, in page order, of
\* at most one table per page (the first table of the page with more than 10
\* rows, taken only if it is accepted; the tables after it are never looked
\* at), when some page contributes; otherwise the Word-Position Extractor on
\* the whole document; exactly one extractor runs.
C5_Dispatch ==
    C5_Finished =>
        /\ Cardinality(ran) = 1
        /\ all_rows = ContributedRows
        /\ IF ContributedRows # <<>>
           THEN ran = {"table"} /\ C5_Outcome(parse_from_table(ContributedRows))
           ELSE ran = {"words"} /\ C5_Outcome(parse_from_words(pages))

\* C5 witness: a page holds two tables that both qualify; only the first is
\* routed to the Table Extractor.
C5_Witness ==
    /\ dpc = "done"
    /\ page_tables = <<<<TBigFood, TBigBeer>>>>
    /\ ran = {"table"}
    /\ Len(result[1].records) = 10
    /\ \A k \in 1..10 : result[1].records[k].primary_category = Some("(Food)")

-----------------------------------------------------------------------------
(* Claims under SpecDate *)

\* The YYYY-MM-DD token that ends s, None when s does not end in one
C10_TokenEnding(s) ==
    IF \E k \in 1..Len(s) : k + 9 = Len(s) /\ IsDateToken(SubSeq(s, k, Len(s)))
    THEN Some(SubSeq(s, Len(s) - 9, Len(s)))
    ELSE None

\* s without the one newline that may end it
C10_DropFinalNewline(s) ==
    IF Len(s) > 0 /\ Ch(s, Len(s)) = "\n" THEN SubSeq(s, 1, Len(s) - 1) ELSE s

\* C10 as claimed: the date is the token that ends the name without extension,
\* and with any other name parse_pmix_pdf fails without a result.
C10_DateResolver_Claimed ==
    dpc # "start" =>
        LET token == C10_TokenEnding(PathStem(pdf_path))
        IN  IF token # None THEN report_date = token
            ELSE report_date = None /\ dpc = "raised" /\ result = None

\* C10: when the name without its last extension ends in a YYYY-MM-DD token,
\* or in such a token and one final newline, the resolved date is exactly that
\* token; with any other name no date is resolved and no extractor runs, the
\* cloud module's parse_pmix_pdf failing without a result and the script's
\* parse_pmix_pdf returning no records and no grand total.
C10_DateResolver ==
    dpc # "start" =>
        LET token == C10_TokenEnding(C10_DropFinalNewline(PathStem(pdf_path)))
        IN  IF token # None THEN report_date = token
            ELSE /\ report_date = None /\ ran = {}
                 /\ IF variant = "cloud" THEN dpc = "raised" /\ result = None
                    ELSE /\ dpc = "done"
                         /\ result = Some([records |-> <<>>, grand_total |-> None])

\* The script was given a name with a one-digit month and returned empty
C10_Witness ==
    /\ variant = "script" /\ pdf_path = "pmix/report2025-6-14.pdf"
    /\ dpc = "done" /\ report_date = None
    /\ result = Some([records |-> <<>>, grand_total |-> None])

-----------------------------------------------------------------------------
(* Claims about the validator, the flaggers and their pipelines, checked   *)
(* under SpecPipeline                                                       *)

\* The document parsed into at least one record
C6_Parsed == ~doc.raised /\ doc.records # <<>>

\* In exact decimal arithmetic the records' net sales are within 1.00 of the
\* printed grand total
C6_Within ==
    Abs(ISum(doc.records, "net_sales") - doc.grand_total[1]) <= TOLERANCE_CENTS

\* C6 as claimed: the total check passes, with a note, when no grand total was
\* printed, and otherwise fails exactly when the sum of net_sales is more than
\* 1.00 away from the printed total, in validate_totals (both copies) and in
\* the total check of both flaggers.
C6_TotalCheck_Claimed ==
    /\ program = "validate_totals" =>
          IF doc.grand_total = None
          THEN outcome[1].is_valid /\ StartsWith(outcome[1].message, "No Grand Total found")
          ELSE outcome[1].is_valid = C6_Within
    /\ program = "script_validate_totals" =>
          IF doc.grand_total = None
          THEN outcome[1].is_valid /\ Contains(outcome[1].warning, "No Grand Total found")
          ELSE outcome[1].is_valid = C6_Within
    /\ program \in {"validate_parsed", "validate_with_claude"} =>
          ((\E i \in 1..Len(outcome[1].issues) : outcome[1].issues[i] = TotalMismatchIssue)
           = (doc.grand_total # None /\ ~C6_Within))

\* The parsed document's net sales are more than 1.00 away from the printed total
C7_Mismatch == C6_Parsed /\ doc.grand_total # None /\ ~C6_Within

\* recs are the last records of all
C7_EndsWith(all, recs) ==
    Len(all) >= Len(recs) /\ SubSeq(all, Len(all) - Len(recs) + 1, Len(all)) = recs

\* The last invocation of process_pmix got as far as the validation
C7_Validated ==
    /\ program = "process_pmix"
    /\ outcome[1].result \in {"success", "failed"}
    /\ outcome[1].error # INSERT_ERROR

\* C7 as claimed: in the CLI, the bulk import and process_pmix alike, the
\* records of a document whose total is off by more than 1.00 are handed on:
\* written, added to the import, inserted into the table.
C7_MismatchAdvisory_Claimed ==
    C7_Mismatch =>
        /\ (/\ program = "cli" /\ outcome[1].file_exists
            /\ outcome[1].pdf_path = PDF_PATH /\ outcome[1].output_writable) =>
              outcome[1].exit_code = 0 /\ outcome[1].written = doc.records
        /\ program = "import" =>
              counts[1].parsed_count = 1 /\ C7_EndsWith(import_records, doc.records)
        /\ C7_Validated =>
              /\ outcome[1].result = "success"
              /\ item_sales = <<InitialSales[1]>> \o SalesRows(DATE, doc.records)

\* C7: a total off by more than 1.00 is advisory in the CLI and in the bulk
\* import, which write the records and add them to the import all the same;
\* process_pmix rejects the document: it inserts nothing, deletes nothing and
\* logs the import as failed with the mismatch message, and a later upload of
\* the same date is skipped as already imported.
C7_MismatchAdvisory ==
    C7_Mismatch =>
        /\ (/\ program = "cli" /\ outcome[1].file_exists
            /\ outcome[1].pdf_path = PDF_PATH /\ outcome[1].output_writable) =>
              outcome[1].exit_code = 0 /\ outcome[1].written = doc.records
        /\ program = "import" =>
              counts[1].parsed_count = 1 /\ C7_EndsWith(import_records, doc.records)
        /\ program = "process_pmix" =>
              /\ item_sales = InitialSales
              /\ \A i \in 1..Len(import_log) :
                    /\ import_log[i].status = "failed"
                    /\ import_log[i].error_message = "ValueError: Total mismatch"
              /\ outcome[1].result \in {"success", "failed"} =>
                    /\ outcome[1].result = "failed"
                    /\ outcome[1].error = "ValueError: Total mismatch"

\* process_pmix turned down an upload whose records add up to 498.50 against
\* a printed 2.14, and left the table as it was
C7_Witness ==
    /\ program = "process_pmix"
    /\ doc.records = <<Item("Sushi", "Spicy Tuna Roll", 12, 49850)>>
    /\ doc.grand_total = Some(214)
    /\ outcome[1].result = "failed"
    /\ Len(import_log) = 1 /\ import_log[1].status = "failed"
    /\ item_sales = InitialSales

\* A heuristic of the flagger fires on record r
C8_Suspicious(r, allow, minWords) ==
    \/ Len(r.item_name) <= 2 /\ r.item_name \notin allow
    \/ /\ Len(SplitWS(r.category)) >= minWords
       /\ \E i, j \in 1..Len(SplitWS(r.category)) :
             i # j /\ SplitWS(r.category)[i] = SplitWS(r.category)[j]

\* The total check or a heuristic of the flagger produces an issue
C8_HasIssue(total, size, allow, minWords) ==
    \/ doc.grand_total # None /\ ExceedsTolerance(total, doc.grand_total[1])
    \/ \E i \in 1..Len(doc.records) :
          i <= size /\ C8_Suspicious(doc.records[i], allow, minWords)

\* The entry the bulk import logged for DATE
C8_Logged == validation_log[Len(validation_log)]

\* C8: each flagger's status is "flagged" exactly when its total check or one
\* of its heuristics produced an issue, and "approved" otherwise; and the bulk
\* import adds a validated document's records to its output whatever the
\* status, logs the entry, and counts the document as flagged exactly when
\* the status is "flagged".
C8_FlaggedIffIssue ==
    /\ program = "validate_parsed" =>
          /\ outcome[1].status \in {"flagged", "approved"}
          /\ (outcome[1].status = "flagged") = (outcome[1].issues # <<>>)
          /\ (outcome[1].status = "flagged")
                = C8_HasIssue(FSum(doc.records, "net_sales"), SAMPLE_IMPORT, ALLOW_IMPORT, 2)
    /\ program = "validate_with_claude" =>
          /\ outcome[1].status \in {"flagged", "approved"}
          /\ (outcome[1].status = "flagged") = (outcome[1].issues # <<>>)
          /\ (outcome[1].status = "flagged")
                = C8_HasIssue(Round2(FSum(doc.records, "net_sales")), SAMPLE_CLAUDE,
                              ALLOW_CLAUDE, 0)
    /\ program = "import" /\ C6_Parsed /\ ~outcome[1].skip_validation =>
          /\ validation_log # <<>> /\ C8_Logged.date = DATE
          /\ (C8_Logged.status = "flagged")
                = C8_HasIssue(FSum(doc.records, "net_sales"), SAMPLE_IMPORT, ALLOW_IMPORT, 2)
          /\ counts[1].flagged_count = (IF C8_Logged.status = "flagged" THEN 1 ELSE 0)
          /\ counts[1].parsed_count = 1
          /\ C7_EndsWith(import_records, doc.records)

\* The bulk import flagged a document for a short item name alone, its total
\* matching the printed one, and imported its records after the placeholder
\* of the day before
C8_Witness ==
    /\ program = "import"
    /\ doc.records = <<Item("Sushi", "Spicy Tuna Roll", 12, 49850),
                       Item("Rolls", "GF", 3, 50), Item("Hot Hot Pot", "X", 1, 1)>>
    /\ doc.grand_total = Some(49950)
    /\ ~outcome[1].skip_validation
    /\ C8_Logged.status = "flagged"
    /\ \A i \in 1..Len(C8_Logged.issues) : C8_Logged.issues[i] # TotalMismatchIssue
    /\ counts[1].flagged_count = 1
    /\ Len(import_records) = 4 /\ SubSeq(import_records, 2, 4) = doc.records

\* The dates of the requested range, in ascending order
C11_Range == IF outcome[1].start_date = DAY_BEFORE THEN <<DAY_BEFORE, DATE>> ELSE <<DATE>>

\* The sentinel record of a date
C11_Sentinel(date) ==
    [report_date |-> date, primary_category |-> None, category |-> PyNone,
     item_name |-> "[CLOSED]", quantity_sold |-> 0, net_sales |-> 0, discount |-> 0]

\* What a date of the range adds to the output: DATE has a PDF, the day
\* before has none
C11_OfDate(date) ==
    IF date = DATE /\ C6_Parsed THEN doc.records ELSE <<C11_Sentinel(date)>>

\* The output holds a sentinel of the date
C11_GetsSentinel(date) ==
    \E i \in 1..Len(import_records) : import_records[i] = C11_Sentinel(date)

\* The combined output is what the dates of the range add, in ascending order
C11_Output ==
    import_records = ConcatAll([i \in 1..Len(C11_Range) |-> C11_OfDate(C11_Range[i])])

\* C11 as claimed: every date of the range adds one sentinel when it has no
\* PDF or its PDF yields no records and the parsed records otherwise, and the
\* extractor is not called for a date that gets a sentinel.
C11_Sentinels_Claimed ==
    program = "import" =>
        /\ C11_Output
        /\ C11_GetsSentinel(DATE) => outcome[1].parse_calls = <<>>

\* C11: every date of the range, in ascending order, adds exactly one sentinel
\* when it has no PDF or its PDF yields no records (or fails to parse) and the
\* parsed records and no sentinel otherwise; the extractor is called exactly
\* once for each date that has a PDF, also when that date gets a sentinel,
\* and never for a date without a PDF.
C11_Sentinels ==
    program = "import" =>
        /\ C11_Output
        /\ outcome[1].parse_calls = <<PDF_PATH>>
        /\ C6_Parsed => ~C11_GetsSentinel(DATE)
        /\ outcome[1].start_date = DAY_BEFORE =>
              /\ import_records[1] = C11_Sentinel(DAY_BEFORE)
              /\ \A i \in 2..Len(import_records) :
                    import_records[i] # C11_Sentinel(DAY_BEFORE)

\* The PDF of DATE was parsed and gave no records: the output is the sentinel
\* of the day before and the sentinel of DATE
C11_Witness ==
    /\ program = "import" /\ ~doc.raised /\ doc.records = <<>>
    /\ outcome[1].parse_calls = <<PDF_PATH>>
    /\ import_records = <<C11_Sentinel(DAY_BEFORE), C11_Sentinel(DATE)>>


-----------------------------------------------------------------------------
(* Claims about repeated parse invocations, checked under SpecReparse *)

\* The result of parsing a document on its own
C12_Alone(d) ==
    HandedBack(IF d.kind = "table" THEN parse_from_table(d.table_rows)
               ELSE parse_from_words(d.pages))

\* The invocations that are over, the running one included once it has ended
C12_Finished ==
    IF pc \in {"done", "raised"}
    THEN Append(returned, [document |-> [kind |-> kind, table_rows |-> table_rows,
                                         pages |-> pages],
                           result |-> HandedBack(Acc)])
    ELSE returned

\* C12: parsing is a pure function of the document: two invocations on the
\* same document give the same records and the same grand total, and every
\* invocation gives what parsing its document alone gives, whatever was parsed
\* before it; an invocation starts without context, grand total or records.
C12_ParsingIsPure ==
    /\ \A i, j \in 1..Len(C12_Finished) :
          C12_Finished[i].document = C12_Finished[j].document
              => C12_Finished[i].result = C12_Finished[j].result
    /\ \A i \in 1..Len(C12_Finished) :
          C12_Finished[i].result = C12_Alone(C12_Finished[i].document)
    /\ pos = 0 => /\ records = <<>> /\ current_primary_category = None
                  /\ grand_total_from_pdf = None

\* A document without a header row was parsed after a document with the
\* header "(Food)" and a grand total, and again after that: its records have
\* no primary category and no grand total came back, both times
C12_Witness ==
    /\ pc = "done" /\ Len(returned) = 2
    /\ returned[1].document = TableDoc(<<RowHeaderFood, RowItem, RowGrandTotal>>)
    /\ returned[1].result.records[1].primary_category = Some("(Food)")
    /\ returned[2].document = TableDoc(<<RowItem>>)
    /\ table_rows = <<RowItem>>
    /\ Len(records) = 1 /\ records[1].primary_category = None
    /\ grand_total_from_pdf = None
    /\ returned[2].result = HandedBack(Acc)

-----------------------------------------------------------------------------
(* Claims about concurrent writers of the validation log, under SpecLog *)

\* The writers that have completed their append
C13_Done == {w \in Writers : wpc[w] = "done"}

\* The log holds the entry of writer w
C13_Holds(w) == \E i \in 1..Len(validation_log) : validation_log[i] = log_entry[w]

\* C13: the append is a read of the whole array, an append to the copy and a
\* rewrite of the whole file; when the appends are serialized no entry is
\* ever lost: between appends the log holds the entry that was there and,
\* after it, one entry of every writer that has completed; serialized or not,
\* a writer that has read holds a copy that ends with its entry.
C13_SerializedLosesNothing ==
    /\ \A w \in Writers :
          wpc[w] # "start" =>
              /\ log_entries[w] # <<>>
              /\ log_entries[w][Len(log_entries[w])] = log_entry[w]
    /\ serialized =>
          /\ Cardinality({w \in Writers : wpc[w] \in {"loaded", "opened"}}) <= 1
          /\ (\A w \in Writers : wpc[w] \in {"start", "done"}) =>
                /\ validation_log[1] = StaleEntry
                /\ Len(validation_log) = 1 + Cardinality(C13_Done)
                /\ \A w \in C13_Done : C13_Holds(w)

\* Two writers ran without serialization and both completed, and the log
\* holds the entry of one of them only
C13_Witness ==
    /\ ~serialized
    /\ wpc[1] = "done" /\ wpc[2] = "done"
    /\ validation_log = <<StaleEntry, log_entry[1]>>
    /\ ~C13_Holds(2)

-----------------------------------------------------------------------------
(* Claims about the validation log as the programs leave it, checked       *)
(* under SpecPipeline                                                       *)

\* The step is a validated parse: an append of either script on its own, or
\* a bulk import that validates a document with records
C14_ValidatedParse ==
    \/ program' = "validate_parsed"
    \/ program' = "validate_parsed.py" /\ outcome'[1].logged
    \/ program' = "import" /\ ~outcome'[1].skip_validation /\ C6_Parsed

\* The log after the step is the log before it with one entry of DATE at the end
C14_OneAppended ==
    /\ Len(validation_log') = Len(validation_log) + 1
    /\ SubSeq(validation_log', 1, Len(validation_log)) = validation_log
    /\ validation_log'[Len(validation_log')].date = DATE

\* C14 as claimed: every operation leaves the entries written before in
\* place and in order and adds exactly one entry at the end per validated
\* parse, a bulk-import run as a whole included.
C14_AppendOnly_Claimed ==
    [][IF C14_ValidatedParse THEN C14_OneAppended ELSE validation_log' = validation_log]_vars

\* C14: the append of validate_parsed.py and the append of
\* import_pmix.validate_parsed leave the entries written before in place and
\* in order and add exactly one entry at the end; a bulk-import run with
\* --skip-validation leaves the log as it is; a bulk-import run without it
\* first removes the log, and leaves a log that holds one entry per validated
\* parse of that run and none of the entries written before it.
C14_AppendOnly ==
    [][IF program' = "import" /\ ~outcome'[1].skip_validation
       THEN /\ Len(validation_log') = (IF C6_Parsed THEN 1 ELSE 0)
            /\ \A i \in 1..Len(validation_log') : validation_log'[i].date = DATE
            /\ outcome'[1].log_removed = (validation_log # <<>>)
       ELSE IF C14_ValidatedParse THEN C14_OneAppended
       ELSE validation_log' = validation_log]_vars

\* A bulk import found the entry of a former run in the log, removed the log,
\* and left the one entry of the document it validated
C14_Witness ==
    /\ program = "import" /\ outcome[1].log_removed
    /\ C6_Parsed
    /\ Len(validation_log) = 1 /\ validation_log[1].date = DATE
    /\ validation_log[1] # StaleEntry

-----------------------------------------------------------------------------
(* Claims about the emitted records' fields, checked under Spec *)

\* C15 as claimed: whenever an extractor returns, every record has a
\* quantity_sold >= 0 (an integer) and a discount >= 0.
C15_NonNegative_Claimed ==
    pc = "done" =>
        \A k \in 1..Len(records) :
            /\ records[k].quantity_sold \in Nat
            /\ records[k].discount >= 0

\* C16 as claimed: whenever an extractor returns, every record's category is
\* a string that is not empty.
C16_HasCategory_Claimed ==
    pc = "done" =>
        \A k \in 1..Len(records) : records[k].category \notin {"", PyNone}

-----------------------------------------------------------------------------
(* Claims about the value normalizers, checked under SpecNormalize *)

\* s spells a decimal number: an optional sign, digits, and at most one "."
\* among them
C17_IsDecimal(s) ==
    /\ \E i \in 1..Len(s) : Ch(s, i) \in Digits
    /\ \A i \in 1..Len(s) : Ch(s, i) \in Digits \cup {"."} \/ (i = 1 /\ Ch(s, i) \in {"-", "+"})
    /\ Cardinality({i \in 1..Len(s) : Ch(s, i) = "."}) <= 1

\* The digits of s in order, as hundredths when s has two fraction digits
RECURSIVE C17_DigitsValue(_)
C17_DigitsValue(s) ==
    IF s = "" THEN 0
    ELSE IF Ch(s, Len(s)) \in Digits
    THEN 10 * C17_DigitsValue(SubSeq(s, 1, Len(s) - 1)) + DigitVal(Ch(s, Len(s)))
    ELSE C17_DigitsValue(SubSeq(s, 1, Len(s) - 1))

\* The number of fraction digits of a decimal spelling
C17_FractionDigits(s) ==
    IF \E i \in 1..Len(s) : Ch(s, i) = "."
    THEN Len(s) - (CHOOSE i \in 1..Len(s) : Ch(s, i) = ".")
    ELSE 0

\* The value of a decimal spelling of at most two fraction digits, in cents
C17_Cents(s) ==
    (IF Ch(s, 1) = "-" THEN -1 ELSE 1)
    * C17_DigitsValue(s)
    * (CASE C17_FractionDigits(s) = 0 -> 100 [] C17_FractionDigits(s) = 1 -> 10
         [] OTHER -> 1)

\* What is left of v after the removal of a set of characters
C17_Without(v, cs) == RemoveChars(IF v = PyNone THEN "" ELSE v, cs)

\* A normalizer returned the number n (cents for a currency amount)
C17_Gave(res, field, n) == res.ok /\ res[field] = n

\* The integer part of an amount in cents
C17_Truncated(cents) == IF cents >= 0 THEN cents \div 100 ELSE -((-cents) \div 100)

\* The reference parse_quantity: strip, 0 when empty, the truncated decimal
\* value otherwise (a ValueError when there is none)
C17_QuantityAgrees(v, res) ==
    IF Strip(C17_Without(v, {})) = "" THEN C17_Gave(res, "n", 0)
    ELSE IF C17_IsDecimal(Strip(v)) THEN C17_Gave(res, "n", C17_Truncated(C17_Cents(Strip(v))))
    ELSE ~res.ok

\* C17 as claimed: parse_currency removes every "$", "," and whitespace
\* character and gives 0.0 when nothing is left, else the decimal value;
\* parse_quantity strips whitespace and gives 0 when nothing is left, else the
\* decimal value truncated to an integer.
C17_Normalizers_Claimed ==
    normalized # None =>
        /\ IF C17_Without(raw_value, {"$", ","} \cup Whitespace) = ""
           THEN C17_Gave(normalized[1].currency, "cents", 0)
           ELSE C17_IsDecimal(C17_Without(raw_value, {"$", ","} \cup Whitespace))
                => C17_Gave(normalized[1].currency, "cents",
                            C17_Cents(C17_Without(raw_value, {"$", ","} \cup Whitespace)))
        /\ C17_QuantityAgrees(raw_value, normalized[1].quantity)

\* C17: parse_currency removes every "$", "," and space, strips the other
\* whitespace at both ends only, and gives 0.0 when nothing is left, else the
\* decimal value, raising ValueError when what is left is no number (as with
\* a tab or a newline between the digits); parse_quantity strips whitespace
\* and gives 0 when nothing is left, else the decimal value truncated to an
\* integer, raising ValueError when there is none.  "$ 1,234.56" gives
\* 1234.56 and "7.00" gives 7.
C17_Normalizers ==
    normalized # None =>
        /\ IF Strip(C17_Without(raw_value, {"$", ",", " "})) = ""
           THEN C17_Gave(normalized[1].currency, "cents", 0)
           ELSE IF C17_IsDecimal(Strip(C17_Without(raw_value, {"$", ",", " "})))
           THEN C17_Gave(normalized[1].currency, "cents",
                         C17_Cents(Strip(C17_Without(raw_value, {"$", ",", " "}))))
           ELSE ~normalized[1].currency.ok
        /\ C17_QuantityAgrees(raw_value, normalized[1].quantity)
        /\ raw_value = "$ 1,234.56" => C17_Gave(normalized[1].currency, "cents", 123456)
        /\ raw_value = "7.00" => C17_Gave(normalized[1].quantity, "n", 7)

\* Both normalizers were given digits with a tab between them, and raised
C17_Witness ==
    /\ raw_value = "$1\t234"
    /\ normalized # None
    /\ ~normalized[1].currency.ok /\ ~normalized[1].quantity.ok

-----------------------------------------------------------------------------
(* Claims about the parse CLI, checked under SpecPipeline *)

\* The CLI was given an existing file whose name holds a date, the parser
\* returned records, and the output could be written
C18_ProducedAndWritten ==
    /\ outcome[1].file_exists
    /\ outcome[1].pdf_path = PDF_PATH
    /\ C6_Parsed
    /\ outcome[1].output_writable

\* C18: the parse CLI exits with status 0 exactly when at least one record
\* was produced and written, a grand-total mismatch making no difference, and
\* with status 1 in every other case: the input file is missing, the file
\* name holds no date, the parser raised, no record was found, the output
\* could not be written.
C18_ExitCodes ==
    program = "cli" =>
        /\ outcome[1].exit_code \in {0, 1}
        /\ (outcome[1].exit_code = 0) = C18_ProducedAndWritten
        /\ (outcome[1].exit_code = 0) = (outcome[1].written # <<>>)
        /\ outcome[1].exit_code = 0 => outcome[1].written = doc.records
        /\ outcome[1].pdf_path # PDF_PATH => outcome[1].exit_code = 1

\* The CLI wrote the records of a document whose total is off by more than
\* 1.00, warned, and exited with status 0
C18_Witness ==
    /\ program = "cli" /\ C7_Mismatch
    /\ outcome[1].exit_code = 0
    /\ outcome[1].written = doc.records
    /\ outcome[1].warning = "Warning: Total mismatch!"

-----------------------------------------------------------------------------
(* Claims about the order of the extractors' rules, checked under Spec *)

\* Cell k (from 0) of a row, unset when the row has no such cell
C19_Cell(row, k) == IF Len(row) > k THEN row[k + 1] ELSE PyNone

\* A cell as text: an unset cell is the empty text
C19_Text(row, k) == IF C19_Cell(row, k) = PyNone THEN "" ELSE Strip(C19_Cell(row, k))

\* The first of the rules 1-6 the row matches, 7 when it matches none
C19_RuleOf(row) ==
    CASE Contains(C19_Text(row, 0), "Menu Group") \/ Contains(C19_Text(row, 0), "Category") -> 1
      [] OTHER ->
    CASE Contains(C19_Text(row, 0), "\n") /\ StartsWith(C19_Text(row, 0), "(") -> 2
      [] OTHER ->
    CASE StartsWith(C19_Text(row, 0), "(") /\ EndsWith(C19_Text(row, 0), ")") -> 3
      [] OTHER ->
    CASE Contains(C19_Text(row, 0), "Grand Total") -> 4
      [] OTHER ->
    CASE C19_Cell(row, 2) \in {PyNone, ""}
         \/ Ch(C19_Cell(row, 2), 1) \notin Digits \cup {"."} -> 5
      [] OTHER ->
    CASE C19_Text(row, 7) = "100.00%" /\ C19_Text(row, 1) = "" -> 6
      [] OTHER -> 7

\* The rows that match none of the rules 1-6, in row order
C19_ItemRows == SelectSeq([i \in 1..Len(table_rows) |-> <<i>>],
                          LAMBDA o : C19_RuleOf(table_rows[o[1]]) = 7)

\* Record k is made of the cells of its row: category, item name, quantity,
\* net sales (cell 3) and discount (cell 5)
C19_FieldsOf(k) ==
    /\ records[k].category = C19_Text(table_rows[origin[k][1]], 0)
    /\ records[k].item_name = C19_Text(table_rows[origin[k][1]], 1)
    /\ records[k].quantity_sold = parse_quantity(C19_Cell(table_rows[origin[k][1]], 2)).n
    /\ records[k].net_sales = parse_currency(C19_Cell(table_rows[origin[k][1]], 3)).cents
    /\ records[k].discount = parse_currency(C19_Cell(table_rows[origin[k][1]], 5)).cents

\* C19 as claimed: for every sequence of table rows parse_from_table returns
\* one record for each row that matches none of the rules 1-6 taken in their
\* order, and for no other row, in row order, with category = cell 0,
\* item_name = cell 1, quantity = parse_quantity(cell 2), net_sales =
\* parse_currency(cell 3) and discount = parse_currency(cell 5).
C19_TableRules_Claimed ==
    kind = "table" /\ pc \in {"done", "raised"} =>
        /\ pc = "done"
        /\ origin = C19_ItemRows
        /\ \A k \in 1..Len(records) : C19_FieldsOf(k)

\* Of the calls that return this does hold: none of their rows has a
\* quantity or an amount that is no number
C19_WhenItReturns ==
    kind = "table" /\ pc = "done" =>
        /\ origin = C19_ItemRows
        /\ \A k \in 1..Len(records) : C19_FieldsOf(k)

\* The "$" words at x0 >= 220 of the row at top y of page p
C20_Dollars(p, y) ==
    {i \in 1..Len(pages[p]) :
        /\ pages[p][i].top = y /\ pages[p][i].x0 >= 220
        /\ StartsWith(pages[p][i].text, "$")}

\* The n-th of them from the left, as an amount in cents; 0 without one
C20_Amount(p, y, n) ==
    IF Cardinality(C20_Dollars(p, y)) < n THEN 0
    ELSE parse_currency(
             pages[p][CHOOSE i \in C20_Dollars(p, y) :
                         Cardinality({j \in C20_Dollars(p, y) :
                                         pages[p][j].x0 < pages[p][i].x0}) = n - 1].text).cents

\* The row holds "100.00" at x0 > 500
C20_Indicator(p, y) ==
    \E i \in 1..Len(pages[p]) :
        pages[p][i].top = y /\ pages[p][i].text = "100.00" /\ pages[p][i].x0 > 500

\* The first of (a)-(d) the data row matches, "e" when it matches none;
\* subtotal says when (c) matches
C20_ClassOf(cat, subtotal) ==
    IF StartsWith(cat, "(") /\ EndsWith(cat, ")") THEN "a"
    ELSE IF Contains(cat, "Grand") /\ Contains(cat, "Total") THEN "b"
    ELSE IF subtotal THEN "c"
    ELSE IF cat = "" THEN "d"
    ELSE "e"

\* (c) as specified: the indicator, a category text that is not parenthesized,
\* an empty item name
C20_Specified(d) ==
    C20_ClassOf(CategoryText(pages[d[1]], d[2]),
                /\ C20_Indicator(d[1], d[2])
                /\ ~IsParenthesized(CategoryText(pages[d[1]], d[2]))
                /\ ItemName(pages[d[1]], d[2]) = "")

\* (c) as parse_from_words tests it: a category text that does not start with "("
C20_Tested(d) ==
    C20_ClassOf(CategoryText(pages[d[1]], d[2]),
                /\ C20_Indicator(d[1], d[2])
                /\ ~StartsWith(CategoryText(pages[d[1]], d[2]), "(")
                /\ ItemName(pages[d[1]], d[2]) = "")

\* The net sales of the last data row of class (b), None without one
C20_GrandTotal(bs) ==
    IF bs = <<>> THEN None ELSE Some(C20_Amount(bs[Len(bs)][1], bs[Len(bs)][2], 2))

\* Record k has the second and the fourth "$" word of its row
C20_FieldsOf(k) ==
    /\ records[k].net_sales = C20_Amount(origin[k][1], origin[k][2], 2)
    /\ records[k].discount = C20_Amount(origin[k][1], origin[k][2], 4)

\* C20 as claimed: for every document parse_from_words classifies each data
\* row by the first of (a)-(d) that matches, returns one record for each data
\* row that matches none and for no other, takes the grand total from the
\* rows of class (b), and gives a record the second "$" word at x0 >= 220 of
\* its row as net_sales and the fourth as discount, 0.0 without one.
C20_WordRules_Claimed ==
    kind = "words" /\ pc \in {"done", "raised"} =>
        /\ pc = "done"
        /\ origin = SelectSeq(DataRows, LAMBDA d : C20_Specified(d) = "e")
        /\ grand_total_from_pdf
              = C20_GrandTotal(SelectSeq(DataRows, LAMBDA d : C20_Specified(d) = "b"))
        /\ \A k \in 1..Len(records) : C20_FieldsOf(k)

\* Of the calls that return this does hold with (c) as it is tested
C20_WhenItReturns ==
    kind = "words" /\ pc = "done" =>
        /\ origin = SelectSeq(DataRows, LAMBDA d : C20_Tested(d) = "e")
        /\ grand_total_from_pdf
              = C20_GrandTotal(SelectSeq(DataRows, LAMBDA d : C20_Tested(d) = "b"))
        /\ \A k \in 1..Len(records) : C20_FieldsOf(k)

-----------------------------------------------------------------------------
(* C21: the rows parse_from_words acts on *)

\* The words of the row at top y of page p that are digits only and start
\* in the quantity column, as indices into the page's word list
C21_QtyWordsAt(p, y) ==
    {i \in 1..Len(pages[p]) :
        /\ pages[p][i].top = y
        /\ IsDigit(pages[p][i].text)
        /\ 185 <= pages[p][i].x0 /\ pages[p][i].x0 < 220}

\* The rows <<page, top>> of the document that hold such a word
C21_Qualified ==
    {d \in UNION {{<<p, pages[p][i].top>> : i \in 1..Len(pages[p])} : p \in 1..Len(pages)} :
        C21_QtyWordsAt(d[1], d[2]) # {}}

\* Page order, ascending top within a page
C21_Before(a, b) == a[1] < b[1] \/ (a[1] = b[1] /\ a[2] < b[2])

\* The first quantity word of a row, as a number
C21_FirstQty(d) ==
    IntOfDigits(pages[d[1]][CHOOSE i \in C21_QtyWordsAt(d[1], d[2]) :
                               \A j \in C21_QtyWordsAt(d[1], d[2]) : i <= j].text)

\* The rows the loop has visited so far
C21_Visited == {DataRows[i] : i \in 1..pos}

\* C21: parse_from_words visits only rows holding a digits-only word with
\* x0 in [185, 220), each once, in page order and ascending top; only a
\* visited row gives a record, the context or the grand total; a row gives at
\* most one record, whose quantity_sold is the row's first such word; a call
\* that returns has visited every such row.
C21_OnlyDataRowsAct ==
    kind = "words" =>
        \A visited \in {C21_Visited}, qualified \in {C21_Qualified} :
            /\ visited \subseteq qualified
            /\ Cardinality(visited) = pos
            /\ \A d \in qualified, v \in visited : C21_Before(d, v) => d \in visited
            /\ \A k \in 1..Len(records) :
                   /\ origin[k] \in visited
                   /\ records[k].quantity_sold = C21_FirstQty(origin[k])
                   /\ \A j \in 1..(k - 1) : C21_Before(origin[j], origin[k])
            /\ current_primary_category # None =>
                   \E d \in visited :
                       current_primary_category = Some(CategoryText(pages[d[1]], d[2]))
            /\ grand_total_from_pdf # None =>
                   \E d \in visited : WordRule(pages[d[1]], d[2]) = "grand_total"
            /\ pc = "done" => visited = qualified

\* A returned two-page parse: a record from a row with two quantity words,
\* next to rows whose only digits-only words start outside the column
C21_Witness ==
    /\ kind = "words" /\ pc = "done" /\ Len(pages) = 2
    /\ \E k \in 1..Len(records) :
           /\ Cardinality(C21_QtyWordsAt(origin[k][1], origin[k][2])) = 2
           /\ records[k].quantity_sold = 2
    /\ \E i \in 1..Len(pages[2]) :
           /\ IsDigit(pages[2][i].text)
           /\ <<2, pages[2][i].top>> \notin C21_Qualified
    /\ current_primary_category # None

-----------------------------------------------------------------------------
(* C22: the words gathered into the category text and the item name *)

\* The words of page p on rows within tol of top y
C22_Near(p, y, tol) ==
    {i \in 1..Len(pages[p]) : pages[p][i].top - y <= tol /\ y - pages[p][i].top <= tol}

\* The word of I that comes first by (top, x0)
C22_First(p, I) ==
    CHOOSE i \in I : \A j \in I \ {i} :
        \/ pages[p][i].top < pages[p][j].top
        \/ pages[p][i].top = pages[p][j].top /\ pages[p][i].x0 < pages[p][j].x0

\* The texts of the words I of page p, in that order, joined by one space
RECURSIVE C22_Joined(_, _)
C22_Joined(p, I) ==
    IF I = {} THEN ""
    ELSE IF Cardinality(I) = 1 THEN pages[p][C22_First(p, I)].text
    ELSE pages[p][C22_First(p, I)].text \o " " \o C22_Joined(p, I \ {C22_First(p, I)})

C22_Category(d) ==
    C22_Joined(d[1], {i \in C22_Near(d[1], d[2], 10) : pages[d[1]][i].x0 < 85})

C22_ItemName(d) ==
    C22_Joined(d[1], {i \in C22_Near(d[1], d[2], 15) :
                         85 <= pages[d[1]][i].x0 /\ pages[d[1]][i].x0 < 185})

\* C22: the category text of a data row at top y is the space-joined texts
\* of exactly the words of its page with x0 < 85 on rows within 10 of y, its
\* item name that of the words with x0 in [85, 185) on rows within 15 of y,
\* both in (top, x0) order: in every record, and in the context a header row
\* sets.
C22_GatheredText ==
    kind = "words" =>
        /\ \A k \in 1..Len(records) :
               /\ records[k].category = C22_Category(origin[k])
               /\ records[k].item_name = C22_ItemName(origin[k])
        /\ current_primary_category # None =>
               \E i \in 1..pos : current_primary_category = Some(C22_Category(DataRows[i]))

\* A returned parse whose record gathers words from the edges of both
\* windows on page 2 while page 1 holds a category word at the same height
C22_Witness ==
    /\ kind = "words" /\ pc = "done" /\ Len(pages) = 2
    /\ \E k \in 1..Len(records) :
           /\ origin[k] = <<2, 100>>
           /\ records[k].category = "Roll Cut"
           /\ records[k].item_name = "Tuna Maki Wrap"
    /\ \E i \in 1..Len(pages[1]) : pages[1][i].x0 < 85 /\ pages[1][i].top \in 90..110
    /\ \E i \in 1..Len(pages[2]) : pages[2][i].x0 < 85 /\ pages[2][i].top = 111
    /\ \E i \in 1..Len(pages[2]) : pages[2][i].x0 = 100 /\ pages[2][i].top = 116

-----------------------------------------------------------------------------
(* C23: the printed grand total *)

\* The rows recognised as the Grand Total row, in document order: <<index>> of
\* a table row, <<page, top>> of a data row of words
C23_GrandTotalRows ==
    IF kind = "table"
    THEN SelectSeq([i \in 1..Len(table_rows) |-> <<i>>],
                   LAMBDA d : TableRule(table_rows[d[1]]) = "grand_total")
    ELSE SelectSeq(DataRows, LAMBDA d : WordRule(pages[d[1]], d[2]) = "grand_total")

\* The "$" words at x0 >= 220 of the data row d
C23_DollarWords(d) ==
    {i \in 1..Len(pages[d[1]]) :
        /\ pages[d[1]][i].top = d[2] /\ pages[d[1]][i].x0 >= 220
        /\ StartsWith(pages[d[1]][i].text, "$")}

\* The second of them from the left
C23_SecondDollar(d) ==
    CHOOSE i \in C23_DollarWords(d) :
        Cardinality({j \in C23_DollarWords(d) : pages[d[1]][j].x0 < pages[d[1]][i].x0}) = 1

\* The net-sales value of a Grand Total row in cents: cell index 3 of a table
\* row, the second "$" word of a row of words; 0.0 when the cell is empty or
\* the row has no second "$" word
C23_NetSales(d) ==
    IF kind = "table" THEN parse_currency(StrOr(table_rows[d[1]][4], "0")).cents
    ELSE IF Cardinality(C23_DollarWords(d)) < 2 THEN 0
    ELSE parse_currency(pages[d[1]][C23_SecondDollar(d)].text).cents

\* C23: the grand total a parse returns is the net-sales value of the last
\* row recognised as Grand Total, and None exactly when there is no such row;
\* no record is built from such a row, nor from any row whose category reads
\* Grand Total.
C23_GrandTotal ==
    (kind \in {"table", "words"} /\ (pc = "done" \/ records # <<>>)) =>
      \A gts \in {C23_GrandTotalRows} :
        /\ pc = "done" =>
              grand_total_from_pdf =
                  IF gts = <<>> THEN None ELSE Some(C23_NetSales(gts[Len(gts)]))
        /\ pc = "done" => (grand_total_from_pdf = None <=> gts = <<>>)
        /\ \A k \in 1..Len(records) :
              /\ \A g \in 1..Len(gts) : origin[k] # gts[g]
              /\ ~Contains(records[k].category, "Grand Total")
              /\ kind = "words" =>
                     ~(Contains(records[k].category, "Grand")
                       /\ Contains(records[k].category, "Total"))

\* A returned table parse with two Grand Total rows of different values
\* around an item row
C23_Witness ==
    /\ kind = "table" /\ pc = "done"
    /\ Len(C23_GrandTotalRows) = 2
    /\ C23_NetSales(C23_GrandTotalRows[1]) # C23_NetSales(C23_GrandTotalRows[2])
    /\ Len(records) = 1
    /\ C23_GrandTotalRows[1][1] < origin[1][1] /\ origin[1][1] < C23_GrandTotalRows[2][1]

-----------------------------------------------------------------------------
(* The two anomaly flaggers on documents longer than their samples:         *)
(* import_pmix.validate_parsed, validate_parsed.validate_with_claude and    *)
(* validate_parsed.py main, each called on a parsed document.               *)

MaxLong == 22       \* records of a document handed to a flagger

PlainItem == Item("Sushi", "Eel Roll", 1, 114)

\* Records a heuristic can fire on: a short name, a short dietary code, a
\* category with a repeated word, and both at once
OddItems ==
    { Item("Sushi", "X", 1, 114), Item("Rolls", "VG", 1, 114),
      Item("Hot Hot Pot", "Eel Roll", 1, 114), Item("Hot Hot Pot", "X", 1, 114) }

\* n records, the odd one at the places S
LongRecords(n, S, odd) == [i \in 1..n |-> IF i \in S THEN odd ELSE PlainItem]

\* Documents of 1..MaxLong records with the odd record nowhere, last, or
\* everywhere, and with no printed total or one that does not match
FlaggerDocs ==
    UNION { { [raised |-> FALSE, records |-> LongRecords(n, S, odd), grand_total |-> gt] :
                  S \in {{}, {n}, 1..n}, odd \in OddItems, gt \in {None, Some(0)} } :
            n \in 1..MaxLong }

InitFlagger ==
    /\ doc \in FlaggerDocs
    /\ program = "none"
    /\ outcome = None
    /\ validation_log = <<>>
    /\ import_records = <<>>
    /\ counts = None
    /\ bucket = {}
    /\ item_sales = <<>>
    /\ import_log = <<>>
    /\ pages = <<>>
    /\ IdleExtract /\ IdleDispatch /\ IdleRest

NextFlagger == CallValidateParsed \/ CallValidateWithClaude \/ ValidateParsedMain

SpecFlagger == InitFlagger /\ [][NextFlagger]_vars

-----------------------------------------------------------------------------
(* C24: what the anomaly flagger raises *)

\* A flagger was called directly and outcome holds what it returned
C24_Called == program \in {"validate_parsed", "validate_with_claude"}

\* The bounded sample: the first 20 records in import_pmix.validate_parsed,
\* the first 10 in validate_with_claude
C24_Sample ==
    SubSeq(doc.records, 1,
           IF program = "validate_parsed"
           THEN (IF Len(doc.records) < 20 THEN Len(doc.records) ELSE 20)
           ELSE (IF Len(doc.records) < 10 THEN Len(doc.records) ELSE 10))

\* The category label holds the same whitespace-separated token twice
C24_RepeatedToken(r) ==
    \E i, j \in 1..Len(SplitWS(r.category)) :
        i # j /\ SplitWS(r.category)[i] = SplitWS(r.category)[j]

\* The heuristic issues of one record under the allow-list allow, as the
\* flagger words them
C24_IssuesOf(r, allow) ==
    (IF Len(r.item_name) <= 2 /\ r.item_name \notin allow
     THEN <<Issue(IF program = "validate_parsed" THEN "Short item name"
                  ELSE "Suspicious item name", r.item_name, r.category)>>
     ELSE <<>>)
    \o (IF C24_RepeatedToken(r)
        THEN <<Issue("Duplicate words in category", "", r.category)>> ELSE <<>>)

\* The heuristic issues of the whole sample, in record order
C24_Expected(allow) == ConcatAll([i \in 1..Len(C24_Sample) |-> C24_IssuesOf(C24_Sample[i], allow)])

\* The total-mismatch issue when the flagger raised it
C24_TotalPart ==
    IF outcome[1].issues # <<>> /\ outcome[1].issues[1] = TotalMismatchIssue
    THEN <<TotalMismatchIssue>> ELSE <<>>

\* The flagger's issues and status are those of the sample under allow
\* (compared on the first 10 issues, which is what both flaggers keep at least)
C24_Holds(allow) ==
    C24_Called =>
        /\ FirstN(outcome[1].issues, 10) = FirstN(C24_TotalPart \o C24_Expected(allow), 10)
        /\ outcome[1].status = "flagged"
              <=> (C24_TotalPart # <<>> \/ C24_Expected(allow) # <<>>)

\* The allow-list of known short codes
C24_AllowList == {"", "GF", "V", "VG"}

\* C24 as claimed: each flagger raises a heuristic issue exactly for the
\* records of its sample whose item name has at most 2 characters and is not
\* on the allow-list, or whose category repeats a token; a record outside the
\* sample adds no issue and does not change the status; both flaggers use
\* the same allow-list.
C24_Flagger_Claimed == C24_Holds(C24_AllowList)

\* With each flagger measured against its own allow-list the rest does hold
C24_WithOwnLists ==
    C24_Holds(IF program = "validate_parsed" THEN ALLOW_IMPORT ELSE ALLOW_CLAUDE)

-----------------------------------------------------------------------------
(* C25: the cap on the issues list *)

\* Every issue the flagger found, in the order it found them
C25_Found ==
    C24_TotalPart
    \o C24_Expected(IF program = "validate_parsed" THEN ALLOW_IMPORT ELSE ALLOW_CLAUDE)

\* The issues list is the first 10 of the issues found
C25_Capped(issues) == Len(issues) <= 10 /\ issues = FirstN(C25_Found, 10)

\* C25 as claimed: in both flaggers the issues list that is returned and
\* logged keeps the issues in the order found and holds at most 10 of them.
C25_Capped_Claimed ==
    /\ C24_Called => C25_Capped(outcome[1].issues)
    /\ \A e \in 1..Len(validation_log) : Len(validation_log[e].issues) <= 10

\* import_pmix.validate_parsed does cap what it returns and logs
C25_ImportCapped ==
    program = "validate_parsed" =>
        /\ C25_Capped(outcome[1].issues)
        /\ validation_log[Len(validation_log)].issues = outcome[1].issues

\* validate_with_claude returns every issue it found
C25_ScriptKeepsAll ==
    program = "validate_with_claude" => outcome[1].issues = C25_Found

-----------------------------------------------------------------------------
(* process_pmix, call by call: two invocations of the cloud function run at *)
(* the same time, each step being one call on the bucket or on BigQuery.    *)

Invocations == {"first", "second"}

\* What parse_pmix_pdf makes of the uploaded report: two records that match
\* the printed total, one record that does not, no record, an exception
TriggerDocs ==
    { [raised |-> FALSE, grand_total |-> Some(164),
       records |-> <<Item("Sushi", "Eel Roll", 1, 114), Item("Rolls", "GF", 3, 50)>>],
      [raised |-> FALSE, grand_total |-> Some(49950),
       records |-> <<Item("Sushi", "Eel Roll", 1, 114)>>],
      [raised |-> FALSE, grand_total |-> None, records |-> <<>>],
      [raised |-> TRUE, grand_total |-> None, records |-> <<>>] }

\* The rows of item_sales for a date
DateRows(rows, date) == SelectSeq(rows, LAMBDA row : row.report_date = date)

\* An invocation that has not been triggered yet.  ops, rows_before and
\* logged_at_start are ghosts: the calls made so far, the date's rows and
\* whether the import log held the date when the invocation started.
IdleInvocation ==
    [pc |-> "idle", blob |-> "", date |-> "", result |-> "", error |-> "", ops |-> {},
     rows_before |-> <<>>, logged_at_start |-> FALSE]

InitTrigger ==
    /\ inv = [i \in Invocations |-> IdleInvocation]
    /\ doc \in TriggerDocs
    /\ program = "process_pmix"
    /\ outcome = None
    /\ validation_log = <<>>
    /\ import_records = <<>>
    /\ counts = None
    /\ bucket = Blobs
    /\ item_sales = InitialSales
    /\ import_log = <<>>
    /\ pages = <<>>
    /\ IdleExtract /\ IdleDispatch /\ IdleSession /\ IdleWriters /\ IdleNormalize

TriggerFrame ==
    UNCHANGED <<doc, program, outcome, validation_log, import_records, counts, extractVars,
                dispatchVars, sessionVars, writerVars, normVars>>

\* The event of an uploaded blob arrives: the folder and file-name tests
Trigger(i) ==
    /\ inv[i].pc = "idle"
    /\ \E blob_name \in bucket :
       \E m \in {FilenameDate(PathName(blob_name))} :
          inv' = [inv EXCEPT ![i] =
                    IF ~StartsWith(blob_name, "incoming/")
                    THEN [@ EXCEPT !.pc = "done", !.blob = blob_name, !.result = "skipped"]
                    ELSE IF m = None
                    THEN [@ EXCEPT !.pc = "delete_early", !.blob = blob_name,
                                   !.result = "invalid_filename"]
                    ELSE [@ EXCEPT !.pc = "check", !.blob = blob_name, !.date = m[1],
                                   !.rows_before = DateRows(item_sales, m[1]),
                                   !.logged_at_start =
                                       \E k \in 1..Len(import_log) :
                                           import_log[k].report_date = m[1]]]
    /\ UNCHANGED <<bucket, item_sales, import_log>>

\* A variant that returns for an imported date without deleting the blob.
CheckImported_NoDelete(i) ==
    /\ inv[i].pc = "check"
    /\ inv' = [inv EXCEPT ![i] =
                 IF is_already_imported(import_log, inv[i].date)
                 THEN [@ EXCEPT !.pc = "done", !.result = "already_imported"]
                 ELSE [@ EXCEPT !.pc = "parse"]]
    /\ UNCHANGED <<bucket, item_sales, import_log>>
\* `if is_already_imported(report_date)`
CheckImported(i) ==
    /\ inv[i].pc = "check"
    /\ inv' = [inv EXCEPT ![i] =
                 IF is_already_imported(import_log, inv[i].date)
                 THEN [@ EXCEPT !.pc = "delete_early", !.result = "already_imported"]
                 ELSE [@ EXCEPT !.pc = "parse"]]
    /\ UNCHANGED <<bucket, item_sales, import_log>>

\* The download, parse_pmix_pdf and the two tests on its result; the download
\* raises when the blob is gone
ParseAndValidate(i) ==
    /\ inv[i].pc = "parse"
    /\ \E err \in {IF inv[i].blob \notin bucket THEN "NotFound: blob" ELSE EarlyError(doc)} :
          inv' = [inv EXCEPT ![i] =
                    IF err # ""
                    THEN [@ EXCEPT !.pc = "log_failed", !.error = err,
                                   !.ops = @ \cup {"parse"}]
                    ELSE [@ EXCEPT !.pc = "delete_rows", !.ops = @ \cup {"parse"}]]
    /\ UNCHANGED <<bucket, item_sales, import_log>>

\* delete_existing_data(report_date)
DeleteRows(i) ==
    /\ inv[i].pc = "delete_rows"
    /\ item_sales' = delete_existing_data(item_sales, inv[i].date)
    /\ inv' = [inv EXCEPT ![i].pc = "insert", ![i].ops = @ \cup {"delete_rows"}]
    /\ UNCHANGED <<bucket, import_log>>

\* insert_records(records): the rows are inserted, or insert_rows_json reports
\* errors and RuntimeError is raised
InsertRows(i) ==
    /\ inv[i].pc = "insert"
    /\ \E insert_ok \in BOOLEAN :
          IF insert_ok
          THEN /\ item_sales' = item_sales \o SalesRows(inv[i].date, doc.records)
               /\ inv' = [inv EXCEPT ![i].pc = "log_success", ![i].ops = @ \cup {"insert"}]
          ELSE /\ UNCHANGED item_sales
               /\ inv' = [inv EXCEPT ![i].pc = "log_failed", ![i].error = INSERT_ERROR]
    /\ UNCHANGED <<bucket, import_log>>

\* log_import(..., 'success', ...) at the end of the try block, or
\* log_import(..., 'failed', ...) in the except branch
LogImport(i) ==
    /\ inv[i].pc \in {"log_success", "log_failed"}
    /\ import_log' = Append(import_log,
           IF inv[i].pc = "log_success"
           THEN ImportLogRow(PathName(inv[i].blob), inv[i].date, "success",
                             Some(Len(doc.records)), Some(FSum(doc.records, "net_sales")), "")
           ELSE ImportLogRow(PathName(inv[i].blob), inv[i].date, "failed", None, None,
                             inv[i].error))
    /\ inv' = [inv EXCEPT ![i].pc = "delete_final",
                          ![i].result = IF inv[i].pc = "log_success" THEN "success"
                                        ELSE "failed",
                          ![i].ops = @ \cup {"log"}]
    /\ UNCHANGED <<bucket, item_sales>>

\* delete_from_gcs(bucket_name, blob_name): the blob is deleted or the call
\* raises; the finally clause catches that, the two early calls do not
DeleteFromGcs(i) ==
    /\ inv[i].pc \in {"delete_early", "delete_final"}
    /\ \E deleted \in BOOLEAN :
          /\ bucket' = IF deleted THEN bucket \ {inv[i].blob} ELSE bucket
          /\ inv' = [inv EXCEPT ![i].pc = IF ~deleted /\ inv[i].pc = "delete_early"
                                          THEN "raised" ELSE "done",
                                ![i].ops = @ \cup {"gcs_delete"}]
    /\ UNCHANGED <<item_sales, import_log>>

NextTrigger ==
    \/ \E i \in Invocations : Trigger(i) /\ TriggerFrame
    \/ \E i \in Invocations : CheckImported(i) /\ TriggerFrame
    \/ \E i \in Invocations : ParseAndValidate(i) /\ TriggerFrame
    \/ \E i \in Invocations : DeleteRows(i) /\ TriggerFrame
    \/ \E i \in Invocations : InsertRows(i) /\ TriggerFrame
    \/ \E i \in Invocations : LogImport(i) /\ TriggerFrame
    \/ \E i \in Invocations : DeleteFromGcs(i) /\ TriggerFrame

SpecTrigger == InitTrigger /\ [][NextTrigger]_vars

-----------------------------------------------------------------------------
(* C26: two invocations for the same report date *)

\* Both invocations were triggered for dated uploads of the same date and
\* have come to their end
C26_BothEnded ==
    \A i \in Invocations : inv[i].pc \in {"done", "raised"} /\ inv[i].date = DATE

\* C26 as claimed: however the calls of two process_pmix invocations for the
\* same report date interleave, item_sales ends with at most one copy of the
\* date's records.
C26_IdempotentReload_Claimed ==
    C26_BothEnded =>
        DateRows(item_sales, DATE)
            \in {<<>>, DateRows(InitialSales, DATE), SalesRows(DATE, doc.records)}

\* One invocation after the other does hold this: the second finds the
\* date in the import log
C26_OneAfterTheOther ==
    (C26_BothEnded /\ \E i \in Invocations : inv[i].logged_at_start) =>
        DateRows(item_sales, DATE)
            \in {<<>>, DateRows(InitialSales, DATE), SalesRows(DATE, doc.records)}

-----------------------------------------------------------------------------
(* C27: a date the import log already holds *)

\* C27: an invocation that starts when the import log holds a row of its
\* date, whatever the row's status, leaves item_sales and the import log as
\* they are in each of its steps, takes nothing but its blob from the bucket
\* and ends as "already imported".
C27_LoggedDateIsFinal ==
    [][\A i \in Invocations :
          (inv'[i] # inv[i] /\ inv'[i].logged_at_start) =>
              /\ item_sales' = item_sales
              /\ import_log' = import_log
              /\ bucket \ bucket' \subseteq {inv'[i].blob}
              /\ inv'[i].pc \in {"check", "delete_early", "done", "raised"}
              /\ inv'[i].ops \subseteq {"gcs_delete"}
              /\ inv'[i].pc \in {"done", "raised"} => inv'[i].result = "already_imported"]_vars

\* The first import of the date failed and an upload of the same file name
\* that started afterwards ended without importing it
C27_Witness ==
    \E i, j \in Invocations :
        /\ inv[i].pc = "done" /\ inv[i].result = "failed"
        /\ inv[j].pc = "done" /\ inv[j].logged_at_start /\ inv[j].result = "already_imported"
        /\ PathName(inv[j].blob) = PathName(inv[i].blob)
        /\ inv[j].ops = {"gcs_delete"}
        /\ Len(import_log) = 1
        /\ doc.records # <<>> /\ DateRows(item_sales, DATE) # SalesRows(DATE, doc.records)

-----------------------------------------------------------------------------
(* C28: what a failed import leaves behind *)

\* Invocation i has ended on its failure path and no other invocation has
\* been triggered
C28_FailedAlone(i) ==
    /\ inv[i].pc \in {"delete_final", "done"} /\ inv[i].result = "failed"
    /\ \A j \in Invocations \ {i} : inv[j].pc = "idle"

\* C28 as claimed: when an invocation ends on its failure path (a parse
\* error, no records, a total mismatch or a loader error), the item_sales
\* rows of its date are those present before it; rows are deleted only by an
\* invocation that also inserts the new records.
C28_FailureChangesNothing_Claimed ==
    \A i \in Invocations :
        C28_FailedAlone(i) =>
            /\ DateRows(item_sales, inv[i].date) = inv[i].rows_before
            /\ "delete_rows" \in inv[i].ops => "insert" \in inv[i].ops

\* The failures before delete_existing_data do leave the table as it was
C28_EarlyFailureChangesNothing ==
    \A i \in Invocations :
        (C28_FailedAlone(i) /\ inv[i].error # INSERT_ERROR) =>
            /\ item_sales = InitialSales
            /\ inv[i].ops \cap {"delete_rows", "insert"} = {}

-----------------------------------------------------------------------------
(* C29: the uploaded blob *)

\* The invocation has returned, or delete_from_gcs raised out of it
C29_Ended(i) == inv[i].pc \in {"done", "raised"}

\* An invocation for a blob under incoming/ has called delete_from_gcs when
\* it ends, whichever way it went; one for a blob elsewhere ends at once
\* without a call
C29_AtTheEnd ==
    /\ \A i \in Invocations :
          C29_Ended(i) =>
              IF StartsWith(inv[i].blob, "incoming/")
              THEN /\ "gcs_delete" \in inv[i].ops
                   /\ inv[i].result
                          \in {"invalid_filename", "already_imported", "success", "failed"}
              ELSE inv[i].ops = {} /\ inv[i].result = "skipped"
    /\ \A i \in Invocations :
          inv[i].pc # "idle" /\ ~StartsWith(inv[i].blob, "incoming/") => C29_Ended(i)

\* Every step that takes a blob from the bucket is the delete_from_gcs of an
\* invocation for that blob, and a skipped invocation changes nothing
C29_OnlyItsBlob ==
    [][\A i \in Invocations :
          inv'[i] # inv[i] =>
              /\ bucket' # bucket =>
                    /\ inv[i].pc \in {"delete_early", "delete_final"}
                    /\ bucket' = bucket \ {inv[i].blob}
                    /\ StartsWith(inv[i].blob, "incoming/")
              /\ inv'[i].result = "skipped" =>
                    bucket' = bucket /\ item_sales' = item_sales /\ import_log' = import_log]_vars

-----------------------------------------------------------------------------
(* The standalone script's copy of the extractors (scripts/parse_pmix_pdf.py) *)

\* refunds = parse_currency(currency_words[0]) if len(currency_words) > 0 else 0.0
ScriptRefunds(row_words) ==
    IF Len(CurrencyWords(row_words)) > 0 THEN parse_currency(CurrencyWords(row_words)[1].text)
    ELSE [ok |-> TRUE, cents |-> 0]

\* avg_price = parse_currency(currency_words[2]) if len(currency_words) > 2 else 0.0
ScriptAvgPrice(row_words) ==
    IF Len(CurrencyWords(row_words)) > 2 THEN parse_currency(CurrencyWords(row_words)[3].text)
    ELSE [ok |-> TRUE, cents |-> 0]

\* The script parses all four amounts of a data row before it classifies the
\* row; the two it adds are used nowhere else
ScriptWordRule(page, y) ==
    IF ~ScriptRefunds(RowsByY(page, y)).ok \/ ~ScriptAvgPrice(RowsByY(page, y)).ok THEN "raise"
    ELSE WordRule(page, y)

\* One iteration of the script's loop over a page's data rows
ScriptWordRowStep(st, page, y, p) ==
    IF st.raised THEN st
    ELSE IF ScriptWordRule(page, y) = "raise" THEN [st EXCEPT !.raised = TRUE]
    ELSE WordRowStep(st, page, y, p)

RECURSIVE ScriptWordFold(_, _, _, _)
ScriptWordFold(st, pgs, drs, i) ==
    IF i > Len(drs) THEN st
    ELSE ScriptWordFold(ScriptWordRowStep(st, pgs[drs[i][1]], drs[i][2], drs[i][1]),
                        pgs, drs, i + 1)

script_parse_from_words(pgs) == ScriptWordFold(EmptyAcc, pgs, AllDataRows(pgs, 1), 1)

\* The script's parse_from_table repeats the cloud copy's loop statement by
\* statement (with prints under `verbose` and other provenance fields)
script_parse_from_table(rows) == TableFold(EmptyAcc, rows, 1)

-----------------------------------------------------------------------------
(* C30: the two copies of the extractor *)

\* What the script's copy makes of the document the cloud copy is run on
C30_Script ==
    IF kind = "table" THEN script_parse_from_table(table_rows)
    ELSE script_parse_from_words(pages)

\* The cloud copy's call has ended
C30_Ended == kind \in {"table", "words"} /\ pc \in {"done", "raised"}

\* C30 as claimed: on every sequence of table rows and every set of page
\* words the two copies end alike, and when they return they return the same
\* records in the same order (primary_category, category, item_name,
\* quantity_sold, net_sales and discount) and the same grand total.
C30_Equivalent_Claimed ==
    C30_Ended =>
        /\ C30_Script.raised <=> pc = "raised"
        /\ pc = "done" =>
              /\ C30_Script.records = records
              /\ C30_Script.gt = grand_total_from_pdf

\* Whenever both copies return, they return the same
C30_WhenBothReturn ==
    (C30_Ended /\ pc = "done" /\ ~C30_Script.raised) =>
        /\ C30_Script.records = records
        /\ C30_Script.gt = grand_total_from_pdf

\* The script's copy never returns where the cloud copy raises
C30_ScriptRaisesMore == (C30_Ended /\ pc = "raised") => C30_Script.raised

=============================================================================
